---- MODULE Spec2Model ----
(***************************************************************************)
(* The AWS Signature Version 4 request signers of the edge functions       *)
(* (supabase/functions/*/aws-signer.ts and the signers written inline in   *)
(* bedrock-llm/index.ts, generate-presigned-url/index.ts and               *)
(* list-s3-objects/index.ts), the handlers that call them, and the         *)
(* JavaScript string functions they rest on.                               *)
(*                                                                         *)
(* Text is a sequence of one-character strings.  SHA-256 and HMAC-SHA256   *)
(* are symbolic and collision free: a digest is the term <<"sha256", m>>,  *)
(* a MAC the term <<"hmac", k, m>>.                                        *)
(***************************************************************************)
EXTENDS Integers, Sequences, FiniteSets, TLC

(***************************************************************************)
(* Bounds of the model.                                                    *)
(***************************************************************************)
\* seconds the clock may advance past the first instant of the model
MaxClock == 2
\* number of signRequest invocations that may be in flight together
MaxCalls == 2
\* number of query parameters of a URL in the query-ordering check
MaxPairs == 3
\* number of characters of the path segment in the canonical-URI check
MaxSegment == 3
\* number of password-reset requests, and of reset-verification requests
MaxResets == 2
\* number of five-minute steps the clock of the password reset may advance
MaxElapsed == 2
\* number of file keys in a copy request
MaxFiles == 3

(***************************************************************************)
(* The state: the clock (seconds past the model's first instant), the      *)
(* signer module the edge function imports, the environment variables of   *)
(* the deployment, and the signRequest                                     *)
(* invocations with the request each caller sends afterwards.  queryCheck   *)
(* and pathCheck hold the inputs and results of the canonical query and    *)
(* canonical URI checks; reset is the password_reset_codes table with the  *)
(* password-reset requests in progress; handler is the progress of a       *)
(* handler through the awaits around its AWS calls.                        *)
(***************************************************************************)
VARIABLES clock, module, env, calls, queryCheck, pathCheck, reset, handler

vars == <<clock, module, env, calls, queryCheck, pathCheck, reset, handler>>

(***************************************************************************)
(* Text helpers.                                                           *)
(***************************************************************************)
RECURSIVE Flatten(_)
\* the concatenation of a sequence of texts
Flatten(ss) == IF ss = <<>> THEN <<>> ELSE Head(ss) \o Flatten(Tail(ss))

RECURSIVE Join(_, _)
\* Array.prototype.join: the texts of ss with sep between them
Join(ss, sep) ==
  IF ss = <<>> THEN <<>>
  ELSE IF Len(ss) = 1 THEN ss[1]
  ELSE ss[1] \o sep \o Join(Tail(ss), sep)

RECURSIVE SplitAcc(_, _, _)
SplitAcc(s, sep, cur) ==
  IF s = <<>> THEN <<cur>>
  ELSE IF Head(s) = sep THEN <<cur>> \o SplitAcc(Tail(s), sep, <<>>)
  ELSE SplitAcc(Tail(s), sep, Append(cur, Head(s)))

\* String.prototype.split on a one-character separator
Split(s, sep) == SplitAcc(s, sep, <<>>)

\* the value standing for a thrown exception
Thrown == <<"<thrown>">>

(***************************************************************************)
(* Percent-encoding.  CharCode gives the two upper-case hex digits of the  *)
(* UTF-8 byte of every character of the model's alphabet.                  *)
(***************************************************************************)
CharCode ==
  [c \in {"NUL", "STX", "ENQ", " ", "!", "\"", "%", "&", "*", "+", "-", ".", "/",
          "0", "2", "5", "=", "?", "K", "P", "R", "U", "_", "k", "z", "~"} |->
     CASE c = "NUL" -> <<"0", "0">> [] c = "STX" -> <<"0", "2">>
       [] c = "ENQ" -> <<"0", "5">> [] c = " " -> <<"2", "0">>
       [] c = "!" -> <<"2", "1">>   [] c = "\"" -> <<"2", "2">>
       [] c = "%" -> <<"2", "5">>   [] c = "&" -> <<"2", "6">>
       [] c = "*" -> <<"2", "A">>   [] c = "+" -> <<"2", "B">>
       [] c = "-" -> <<"2", "D">>   [] c = "." -> <<"2", "E">>
       [] c = "/" -> <<"2", "F">>   [] c = "0" -> <<"3", "0">>
       [] c = "2" -> <<"3", "2">>   [] c = "5" -> <<"3", "5">>
       [] c = "=" -> <<"3", "D">>   [] c = "?" -> <<"3", "F">>
       [] c = "K" -> <<"4", "B">>   [] c = "P" -> <<"5", "0">>
       [] c = "R" -> <<"5", "2">>   [] c = "U" -> <<"5", "5">>
       [] c = "_" -> <<"5", "F">>   [] c = "k" -> <<"6", "B">>
       [] c = "z" -> <<"7", "A">>   [] c = "~" -> <<"7", "E">>]

Alphabet == DOMAIN CharCode

HexDigits == {"0", "1", "2", "3", "4", "5", "6", "7", "8", "9",
              "A", "B", "C", "D", "E", "F"}

\* runs of letters, digits and '-' that the model keeps as one token
Words == {"knowledgebases", "datasources", "foundation-models", "retrieveAndGenerate",
          "list-type", "max-keys", "1000", "KB1", "KB2", "DS1", "file",
          "inference-profiles", "ingestionjobs", "model", "converse", "MODEL1",
          "test.txt", "prefix", "continuation-token"}

\* the characters encodeURIComponent leaves alone: A-Z a-z 0-9 - _ . ! ~ * ' ( )
UriUnescaped == Words \cup {"K", "P", "R", "U", "k", "z", "0", "1", "2", "3", "4", "5", "6",
                 "7", "8", "9", "A", "B", "C", "D", "E", "F",
                 "-", "_", ".", "!", "~", "*"}

\* '%' followed by the byte of c in upper-case hex
PercentOf(c) == <<"%">> \o CharCode[c]

RECURSIVE encodeURIComponent(_)
encodeURIComponent(s) ==
  IF s = <<>> THEN <<>>
  ELSE (IF Head(s) \in UriUnescaped THEN <<Head(s)>> ELSE PercentOf(Head(s)))
       \o encodeURIComponent(Tail(s))

RECURSIVE ReplaceMarks(_)
\* .replace(/[!'()*]/g, c => '%' + c.charCodeAt(0).toString(16).toUpperCase())
ReplaceMarks(s) ==
  IF s = <<>> THEN <<>>
  ELSE (IF Head(s) \in {"!", "*"} THEN PercentOf(Head(s)) ELSE <<Head(s)>>)
       \o ReplaceMarks(Tail(s))

encodeURIComponent2(str) == ReplaceMarks(encodeURIComponent(str))

\* the character whose byte is the hex pair h (the alphabet is closed under it)
CharOfCode(h) == CHOOSE c \in Alphabet : CharCode[c] = h

HasCode(h) == \E c \in Alphabet : CharCode[c] = h

RECURSIVE decodeURIComponent(_)
\* decodeURIComponent: every %XX becomes its character; a '%' that is not
\* followed by two hex digits throws URIError
decodeURIComponent(s) ==
  IF s = <<>> THEN <<>>
  ELSE IF Head(s) # "%" THEN
         LET rest == decodeURIComponent(Tail(s))
         IN  IF rest = Thrown THEN Thrown ELSE <<Head(s)>> \o rest
  ELSE IF Len(s) < 3 \/ ~HasCode(<<s[2], s[3]>>) THEN Thrown
  ELSE LET rest == decodeURIComponent(SubSeq(s, 4, Len(s)))
       IN  IF rest = Thrown THEN Thrown ELSE <<CharOfCode(<<s[2], s[3]>>)>> \o rest

(***************************************************************************)
(* String.prototype.localeCompare under the runtime's default collation:  *)
(* texts are compared by the primary weights of their characters           *)
(* (punctuation, then symbols, then digits, then letters without regard    *)
(* to case) and, when those agree, by case with lower case first.          *)
(***************************************************************************)
PrimaryWeight(c) ==
  CASE c = "_" -> 1 [] c = "-" -> 2 [] c = "." -> 3 [] c = "%" -> 4
    [] c = "~" -> 5
    [] c = "0" -> 10 [] c = "1" -> 11 [] c = "2" -> 12 [] c = "3" -> 13
    [] c = "4" -> 14 [] c = "5" -> 15 [] c = "6" -> 16 [] c = "7" -> 17
    [] c = "8" -> 18 [] c = "9" -> 19
    [] c = "A" -> 20 [] c = "B" -> 21 [] c = "C" -> 22 [] c = "D" -> 23
    [] c = "E" -> 24 [] c = "F" -> 25
    [] c = "1000" -> 11
    [] c \in {"k", "K"} -> 30 [] c = "list-type" -> 31 [] c = "max-keys" -> 32
    [] c = "P" -> 35 [] c = "R" -> 37
    [] c = "U" -> 40 [] c = "z" -> 45
    [] OTHER -> 0

CaseWeight(c) ==
  IF c \in {"A", "B", "C", "D", "E", "F", "K", "P", "R", "U"} THEN 1 ELSE 0

RECURSIVE CompareWeights(_, _)
\* -1, 0 or 1: two sequences of weights compared lexicographically
CompareWeights(a, b) ==
  IF a = <<>> /\ b = <<>> THEN 0
  ELSE IF a = <<>> THEN -1
  ELSE IF b = <<>> THEN 1
  ELSE IF Head(a) < Head(b) THEN -1
  ELSE IF Head(a) > Head(b) THEN 1
  ELSE CompareWeights(Tail(a), Tail(b))

localeCompare(a, b) ==
  LET p == CompareWeights([i \in 1..Len(a) |-> PrimaryWeight(a[i])],
                          [i \in 1..Len(b) |-> PrimaryWeight(b[i])])
  IN  IF p # 0 THEN p
      ELSE CompareWeights([i \in 1..Len(a) |-> CaseWeight(a[i])],
                          [i \in 1..Len(b) |-> CaseWeight(b[i])])

\* the comparator of params.sort in getCanonicalQueryString
ComparePairsIgnoringValue(a, b) ==
  IF a[1] = b[1] THEN 0 ELSE localeCompare(a[1], b[1])

ComparePairs(a, b) ==
  IF a[1] = b[1] THEN localeCompare(a[2], b[2]) ELSE localeCompare(a[1], b[1])

RECURSIVE InsertSorted(_, _)
\* x placed after every element of the sorted sequence that does not
\* compare greater than it
InsertSorted(x, sorted) ==
  IF sorted = <<>> THEN <<x>>
  ELSE IF ComparePairs(Head(sorted), x) <= 0
       THEN <<Head(sorted)>> \o InsertSorted(x, Tail(sorted))
  ELSE <<x>> \o sorted

RECURSIVE SortPairs(_)
\* Array.prototype.sort, which is stable
SortPairs(ps) ==
  IF ps = <<>> THEN <<>>
  ELSE InsertSorted(ps[Len(ps)], SortPairs(SubSeq(ps, 1, Len(ps) - 1)))

(***************************************************************************)
(* URLs.  A URL as the caller writes it is a record: scheme ("" when the   *)
(* text has none), host (its dot-separated labels), port ("" when none is  *)
(* written), path (text, "" or starting with '/') and query (the           *)
(* '&'-separated key=value pairs after '?', as written).  NoUrl is the     *)
(* absent (undefined or empty) url parameter.                              *)
(***************************************************************************)
NoUrl == [scheme |-> "", host |-> <<>>, port |-> "", path |-> <<>>, query |-> <<>>]

\* host labels that hold a code point the URL parser forbids in a host
ForbiddenLabels == {"us-east-1 "}

\* new URL(url) throws TypeError for a text that is no absolute URL
UrlParses(u) ==
  /\ u.scheme = "https"
  /\ u.host # <<>>
  /\ \A i \in 1..Len(u.host) : u.host[i] \notin ForbiddenLabels

\* the URL parser lower-cases the host
LowerLabel(l) == IF l = "EXAMPLE" THEN "example" ELSE l

\* URL.hostname: the host without the port
hostname(u) == [i \in 1..Len(u.host) |-> LowerLabel(u.host[i])]

\* URL.host: the host, and the port unless it is the scheme's default; this
\* is the authority an HTTP client puts in the Host header of the request
hostWithPort(u) ==
  hostname(u) \o (IF u.port \in {"", "443"} THEN <<>> ELSE <<":", u.port>>)

RECURSIVE EncodeSet(_, _)
\* the URL parser's percent-encoding of the characters of the set S
EncodeSet(s, S) ==
  IF s = <<>> THEN <<>>
  ELSE (IF Head(s) \in S THEN PercentOf(Head(s)) ELSE <<Head(s)>>)
       \o EncodeSet(Tail(s), S)

\* URL.pathname: '/' for an empty path; space and '"' are escaped, an
\* existing '%' is kept as it is
pathname(u) == IF u.path = <<>> THEN <<"/">> ELSE EncodeSet(u.path, {" ", "\"", "NUL", "STX", "ENQ"})

RawPair(kv) == kv[1] \o <<"=">> \o kv[2]

RawQuery(u) == Join([i \in 1..Len(u.query) |-> RawPair(u.query[i])], <<"&">>)

\* URL.search: "" without a query, else '?' and the query
search(u) ==
  IF u.query = <<>> THEN <<>>
  ELSE <<"?">> \o EncodeSet(RawQuery(u), {" ", "\"", "NUL", "STX", "ENQ"})

RECURSIVE PlusToSpace(_)
PlusToSpace(s) ==
  IF s = <<>> THEN <<>>
  ELSE <<IF Head(s) = "+" THEN " " ELSE Head(s)>> \o PlusToSpace(Tail(s))

RECURSIVE PercentDecodeLenient(_)
\* percent-decoding that leaves a malformed '%' as it is
PercentDecodeLenient(s) ==
  IF s = <<>> THEN <<>>
  ELSE IF Head(s) = "%" /\ Len(s) >= 3 /\ HasCode(<<s[2], s[3]>>)
       THEN <<CharOfCode(<<s[2], s[3]>>)>> \o PercentDecodeLenient(SubSeq(s, 4, Len(s)))
  ELSE <<Head(s)>> \o PercentDecodeLenient(Tail(s))

FormDecode(s) == PercentDecodeLenient(PlusToSpace(s))

\* URL.searchParams: the pairs of the query, decoded, in the order written
searchParams(u) ==
  [i \in 1..Len(u.query) |-> <<FormDecode(u.query[i][1]), FormDecode(u.query[i][2])>>]

RECURSIVE FormEncode(_)
\* application/x-www-form-urlencoded: space is '+', letters, digits and
\* * - . _ stay, everything else is %XX
FormEncode(s) ==
  IF s = <<>> THEN <<>>
  ELSE (IF Head(s) = " " THEN <<"+">>
        ELSE IF Head(s) \in (UriUnescaped \ {"!", "~"}) THEN <<Head(s)>>
        ELSE PercentOf(Head(s)))
       \o FormEncode(Tail(s))

\* URLSearchParams.prototype.toString
SearchParamsToString(ps) ==
  Join([i \in 1..Len(ps) |-> FormEncode(ps[i][1]) \o <<"=">> \o FormEncode(ps[i][2])],
       <<"&">>)

(***************************************************************************)
(* The canonical URI and canonical query string helpers.                   *)
(***************************************************************************)
\* canonicalURI of list-foundation-models/aws-signer.ts
canonicalURILfm(path) ==
  LET segments == Split(path, "/")
  IN  Join([i \in 1..Len(segments) |-> encodeURIComponent2(segments[i])], <<"/">>)

\* canonicalURI of generate-upload-url/aws-signer.ts and of
\* generate-presigned-url/index.ts
canonicalURI(path) ==
  IF path = <<>> \/ path = <<"/">> THEN <<"/">> ELSE canonicalURILfm(path)

\* the path of the signer written inline in bedrock-llm/index.ts: every
\* segment decoded, then encoded; Thrown when a segment does not decode
DecodedPath(path) ==
  LET segments == Split(path, "/")
      decoded  == [i \in 1..Len(segments) |-> decodeURIComponent(segments[i])]
  IN  IF \E i \in 1..Len(segments) : decoded[i] = Thrown THEN Thrown
      ELSE Join([i \in 1..Len(segments) |-> encodeURIComponent(decoded[i])], <<"/">>)

getCanonicalQueryString(ps) ==
  LET params == [i \in 1..Len(ps) |->
                   <<encodeURIComponent2(ps[i][1]), encodeURIComponent2(ps[i][2])>>]
      sorted == SortPairs(params)
  IN  Join([i \in 1..Len(sorted) |-> RawPair(sorted[i])], <<"&">>)

(***************************************************************************)
(* The clock and the date texts.  Instant k is k seconds after             *)
(* 2013-05-24T23:59:58.000Z, so that the UTC day changes at k = 2.         *)
(***************************************************************************)
Digit(n) == <<"0", "1", "2", "3", "4", "5", "6", "7", "8", "9">>[n + 1]

TwoDigits(n) == <<Digit(n \div 10), Digit(n % 10)>>

\* Date.prototype.toISOString of instant k: YYYY-MM-DDTHH:mm:ss.sssZ
toISOString(k) ==
  LET t   == 86398 + k
      day == 24 + (t \div 86400)
      sod == t % 86400
  IN  <<"2", "0", "1", "3", "-", "0", "5", "-">> \o TwoDigits(day) \o <<"T">>
      \o TwoDigits(sod \div 3600) \o <<":">> \o TwoDigits((sod % 3600) \div 60)
      \o <<":">> \o TwoDigits(sod % 60) \o <<".", "0", "0", "0", "Z">>

RECURSIVE StripIso(_)
\* .replace(/[:-]|\.\d{3}/g, '')
StripIso(s) ==
  IF s = <<>> THEN <<>>
  ELSE IF Head(s) \in {":", "-"} THEN StripIso(Tail(s))
  ELSE IF /\ Head(s) = "." /\ Len(s) >= 4
          /\ \A i \in 2..4 : s[i] \in {"0", "1", "2", "3", "4", "5", "6", "7", "8", "9"}
       THEN StripIso(SubSeq(s, 5, Len(s)))
  ELSE <<Head(s)>> \o StripIso(Tail(s))

\* amzDate of the instant read from the clock
AmzDateOf(now) == StripIso(toISOString(now))

\* amzDate.slice(0, 8)
DateStampOf(amzDate) == SubSeq(amzDate, 1, 8)

(***************************************************************************)
(* Symbolic cryptography.                                                  *)
(***************************************************************************)
\* crypto.subtle.digest('SHA-256', encoder.encode(data)): the raw digest
Sha256(data) == [fn |-> "sha256", of |-> data]

\* Array.from(new Uint8Array(b)).map(b => b.toString(16).padStart(2, '0')).join('')
ToHex(b) == [fn |-> "hex", of |-> b]

\* importKey('raw', key, HMAC/SHA-256) and sign('HMAC', cryptoKey, data): the raw MAC
Hmac(key, data) == [fn |-> "hmac", key |-> key, data |-> data]

\* encoder.encode('AWS4' + key)
SecretKeyBytes(secretAccessKey) == <<"AWS4", secretAccessKey>>

(***************************************************************************)
(* The signRequest variants of the repository.                             *)
(***************************************************************************)
BLA == "bedrock-llm/aws-signer.ts"
BLI == "bedrock-llm/index.ts"
LFM == "list-foundation-models/aws-signer.ts"
GUU == "generate-upload-url/aws-signer.ts"
GPI == "generate-presigned-url/index.ts"
LRF == "list-repository-files/aws-signer.ts"
PT1 == "unnamed/part_001"
LS3 == "list-s3-objects/index.ts"

Variants == {BLA, BLI, LFM, GUU, GPI, LRF, PT1, LS3}

\* the outcome of resolving the target: ok is FALSE when the variant throws
NoTarget == [ok |-> FALSE, host |-> <<>>, uri |-> <<>>, query |-> <<>>]

\* bedrock-llm/aws-signer.ts: url, or host and path, or an Error
TargetBla(p) ==
  IF p.url # NoUrl
  THEN IF UrlParses(p.url)
       THEN [ok |-> TRUE, host |-> hostname(p.url),
             uri |-> pathname(p.url) \o search(p.url), query |-> <<>>]
       ELSE NoTarget
  ELSE IF p.host # <<>> /\ p.path # <<>>
       THEN [ok |-> TRUE, host |-> p.host, uri |-> p.path, query |-> <<>>]
       ELSE NoTarget

\* the signers that take a url only: host, canonical URI and canonical query
TargetOfUrl(v, u) ==
  IF ~UrlParses(u) THEN NoTarget
  ELSE CASE v = BLI ->
              IF DecodedPath(pathname(u)) = Thrown THEN NoTarget
              ELSE [ok |-> TRUE, host |-> hostname(u),
                    uri |-> DecodedPath(pathname(u)), query |-> <<>>]
         [] v = LFM ->
              [ok |-> TRUE, host |-> hostname(u),
               uri |-> canonicalURILfm(pathname(u)), query |-> <<>>]
         [] v \in {GUU, GPI} ->
              [ok |-> TRUE, host |-> hostname(u), uri |-> canonicalURI(pathname(u)),
               query |-> getCanonicalQueryString(searchParams(u))]
         [] v = LRF ->
              [ok |-> TRUE, host |-> hostname(u), uri |-> pathname(u),
               query |-> SearchParamsToString(searchParams(u))]
         [] v = PT1 ->
              [ok |-> TRUE, host |-> hostname(u), uri |-> pathname(u),
               query |-> IF search(u) = <<>> THEN <<>> ELSE Tail(search(u))]
         [] v = LS3 ->
              [ok |-> TRUE, host |-> hostname(u),
               uri |-> pathname(u) \o search(u), query |-> <<>>]

ResolveTarget(v, p) == IF v = BLA THEN TargetBla(p) ELSE TargetOfUrl(v, p.url)

\* a signedHeaders text that lists host first in every variant
SignedHeaderNamesHostFirst(v) ==
  CASE v = LFM -> <<"host", "content-type", "x-amz-date">>
    [] v \in {GUU, GPI} -> <<"host", "x-amz-content-sha256", "x-amz-date">>
    [] OTHER -> <<"host", "x-amz-date">>

\* the names of the signed headers, in the order of the signedHeaders text
SignedHeaderNames(v) ==
  CASE v = LFM -> <<"content-type", "host", "x-amz-date">>
    [] v \in {GUU, GPI} -> <<"host", "x-amz-content-sha256", "x-amz-date">>
    [] OTHER -> <<"host", "x-amz-date">>

\* a header value: a text, or a term (a digest in hex, the Authorization value)
TextValue(t) == [text |-> t, term |-> <<>>]

TermValue(x) == [text |-> <<>>, term |-> <<x>>]

Header(name, value) == [name |-> name, value |-> value]

\* the canonical headers block: one name:value line per header, each line
\* ended by a newline
CanonicalHeaders(v, host, amzDate, payloadHash) ==
  CASE v = LFM ->
         <<Header("content-type", TextValue(<<"application/json">>)),
           Header("host", TextValue(host)),
           Header("x-amz-date", TextValue(amzDate))>>
    [] v \in {GUU, GPI} ->
         <<Header("host", TextValue(host)),
           Header("x-amz-content-sha256", TermValue(payloadHash)),
           Header("x-amz-date", TextValue(amzDate))>>
    [] OTHER ->
         <<Header("host", TextValue(host)),
           Header("x-amz-date", TextValue(amzDate))>>

\* `${method}\n${uri}\n${query}\n${canonicalHeaders}\n${signedHeaders}\n${payloadHash}`
CanonicalRequest(v, method, target, amzDate, payloadHash) ==
  [method        |-> method,
   uri           |-> target.uri,
   query         |-> target.query,
   headers       |-> CanonicalHeaders(v, target.host, amzDate, payloadHash),
   signedHeaders |-> SignedHeaderNames(v),
   payloadHash   |-> payloadHash]

(***************************************************************************)
(* The canonical request as text: a sequence of pieces, each a text or a   *)
(* term, where the piece NewLine is the character '\n'.                    *)
(***************************************************************************)
NewLine == TextValue(<<"\n">>)

\* an interpolated empty string adds nothing to a text
Pieces(ps) == SelectSeq(ps, LAMBDA x : x # TextValue(<<>>))

\* a headers block whose last line is not ended
CanonicalHeadersTextOpenEnded(hs) ==
  Join([k \in 1..Len(hs) |-> <<TextValue(<<hs[k].name, ":">>), hs[k].value>>], <<NewLine>>)

\* `host:${host}\nx-amz-date:${amzDate}\n`: every line ends with '\n'
CanonicalHeadersText(hs) ==
  Flatten([k \in 1..Len(hs) |-> <<TextValue(<<hs[k].name, ":">>), hs[k].value, NewLine>>])

\* 'host;x-amz-date'
SignedHeadersText(v) ==
  TextValue(Join([k \in 1..Len(SignedHeaderNames(v)) |-> <<SignedHeaderNames(v)[k]>>], <<";">>))

\* the canonical request text of each variant: a template literal with an
\* empty third line, a template literal with the query on the third line,
\* or six parts joined with '\n'
CanonicalRequestText(v, method, target, amzDate, payloadHash) ==
  LET headers == CanonicalHeadersText(CanonicalHeaders(v, target.host, amzDate, payloadHash))
      m       == TextValue(<<method>>)
      uri     == TextValue(target.uri)
      query   == TextValue(target.query)
      signed  == SignedHeadersText(v)
      hash    == TermValue(payloadHash)
  IN  Pieces(
        CASE v \in {BLA, BLI, LFM} ->
               <<m, NewLine, uri, NewLine, NewLine>> \o headers
                 \o <<NewLine, signed, NewLine, hash>>
          [] v \in {GUU, GPI, PT1} ->
               <<m, NewLine, uri, NewLine, query, NewLine>> \o headers
                 \o <<NewLine, signed, NewLine, hash>>
          [] v = LRF ->
               Join(<< <<m>>, <<uri>>, <<query>>, headers, <<signed>>, <<hash>> >>, <<NewLine>>)
          [] v = LS3 ->
               Join(<< <<m>>, <<uri>>, <<TextValue(<<>>)>>, headers, <<signed>>, <<hash>> >>,
                    <<NewLine>>))

\* `${dateStamp}/${region}/${service}/aws4_request`
CredentialScope(dateStamp, region, service) ==
  [dateStamp |-> dateStamp, region |-> region, service |-> service,
   terminator |-> "aws4_request"]

\* 'AWS4-HMAC-SHA256', amzDate, credentialScope and the digest, one per line
StringToSign(amzDate, scope, canonicalRequestHash) ==
  [algorithm |-> "AWS4-HMAC-SHA256", amzDate |-> amzDate, scope |-> scope,
   hash |-> canonicalRequestHash]

\* an Authorization value that names host;x-amz-date in every variant
AuthorizationHeaderTwoHeaders(v, accessKeyId, scope, signature) ==
  [algorithm |-> "AWS4-HMAC-SHA256", accessKeyId |-> accessKeyId, scope |-> scope,
   signedHeaders |-> <<"host", "x-amz-date">>, signature |-> signature]

\* `${algorithm} Credential=${accessKeyId}/${credentialScope}, SignedHeaders=${signedHeaders}, Signature=${signature}`
AuthorizationHeader(v, accessKeyId, scope, signature) ==
  [algorithm |-> "AWS4-HMAC-SHA256", accessKeyId |-> accessKeyId, scope |-> scope,
   signedHeaders |-> SignedHeaderNames(v), signature |-> signature]

\* the object signRequest returns, its properties in insertion order
ReturnedHeaders(v, host, amzDate, payloadHash, authorization) ==
  CASE v \in {BLA, BLI} ->
         <<Header("Host", TextValue(host)),
           Header("X-Amz-Date", TextValue(amzDate)),
           Header("Authorization", TermValue(authorization)),
           Header("Content-Type", TextValue(<<"application/json">>))>>
    [] v = LFM ->
         <<Header("Content-Type", TextValue(<<"application/json">>)),
           Header("Host", TextValue(host)),
           Header("X-Amz-Date", TextValue(amzDate)),
           Header("Authorization", TermValue(authorization))>>
    [] v \in {GUU, GPI} ->
         <<Header("Host", TextValue(host)),
           Header("X-Amz-Date", TextValue(amzDate)),
           Header("X-Amz-Content-Sha256", TermValue(payloadHash)),
           Header("Authorization", TermValue(authorization))>>
    [] OTHER ->
         <<Header("Authorization", TermValue(authorization)),
           Header("x-amz-date", TextValue(amzDate)),
           Header("x-amz-content-sha256", TermValue(payloadHash))>>

\* headers.Authorization: a property is looked up by its exact name
HasHeaderNamed(hs, name) == \E i \in 1..Len(hs) : hs[i].name = name

\* header names are compared without regard to case
LowerName(n) ==
  CASE n = "Host" -> "host"
    [] n = "X-Amz-Date" -> "x-amz-date"
    [] n = "X-Amz-Content-Sha256" -> "x-amz-content-sha256"
    [] n = "Content-Type" -> "content-type"
    [] n = "Authorization" -> "authorization"
    [] OTHER -> n

\* headers[name] = value on a plain object: the property is replaced where
\* it exists (names are case sensitive there) and added at the end otherwise
SetHeader(hs, name, value) ==
  IF \E i \in 1..Len(hs) : hs[i].name = name
  THEN [i \in 1..Len(hs) |-> IF hs[i].name = name THEN Header(name, value) ELSE hs[i]]
  ELSE Append(hs, Header(name, value))

(***************************************************************************)
(* signRequest, one action per stretch of code between two awaits.         *)
(***************************************************************************)
NoTerm == [fn |-> "none"]

NoParams ==
  [method |-> "", url |-> NoUrl, host |-> <<>>, path |-> <<>>, body |-> <<>>,
   region |-> "", service |-> "", accessKeyId |-> "", secretAccessKey |-> ""]

NoSite ==
  [name |-> "", modules |-> {}, trims |-> FALSE, method |-> "", service |-> "",
   hostPrefix |-> <<>>, path |-> <<>>, query |-> <<>>, body |-> <<>>,
   setContentType |-> FALSE, setHost |-> FALSE]

IdleCall ==
  [pc |-> "idle", site |-> NoSite, p |-> NoParams, now |-> -1, reads |-> 0, ops |-> 0,
   target |-> NoTarget, amzDate |-> <<>>, dateStamp |-> <<>>, payloadHash |-> NoTerm,
   canonicalRequest |-> NoTerm, scope |-> NoTerm, stringToSign |-> NoTerm,
   key |-> NoTerm, signature |-> NoTerm, headers |-> <<>>, request |-> NoTerm,
   logged |-> {}, canonicalText |-> <<>>]

Slots == 1..MaxCalls

\* the code up to the first await, hashing the body before it resolves the target
FirstSegmentHashFirst(v, p, clk) ==
  LET t == ResolveTarget(v, p)
  IN  [ok |-> t.ok, target |-> t, reads |-> 1, ops |-> 1, now |-> clk,
       amzDate |-> AmzDateOf(clk), dateStamp |-> DateStampOf(AmzDateOf(clk))]

\* the code up to the first await: the target is resolved (a throw rejects
\* the promise), the clock is read, amzDate and dateStamp are derived and
\* the digest of the body is asked for.  unnamed/part_001 reads the clock
\* before it parses the url, the others after.
FirstSegment(v, p, clk) ==
  LET t == ResolveTarget(v, p)
  IN  IF t.ok
      THEN [ok |-> TRUE, target |-> t, reads |-> 1, ops |-> 1, now |-> clk,
            amzDate |-> AmzDateOf(clk), dateStamp |-> DateStampOf(AmzDateOf(clk))]
      ELSE [ok |-> FALSE, target |-> t, reads |-> IF v = PT1 THEN 1 ELSE 0, ops |-> 0,
            now |-> IF v = PT1 THEN clk ELSE -1,
            amzDate |-> IF v = PT1 THEN AmzDateOf(clk) ELSE <<>>,
            dateStamp |-> IF v = PT1 THEN DateStampOf(AmzDateOf(clk)) ELSE <<>>]

\* a value written to the log by console.log or console.error
LogEntry(label, value) == [label |-> label, value |-> value]

\* a URL as the text a template literal builds and a log shows
UrlText(u) == IF u = NoUrl THEN <<>> ELSE hostWithPort(u) \o u.path

\* what a handler logs on its way to the call of signRequest; the signers
\* themselves log nothing
LoggedBeforeSign(site, p) ==
  IF site.name = "unnamed/part_000:103"
  THEN {LogEntry("endpoint", TextValue(UrlText(p.url))),
        LogEntry("requestBody", TextValue(p.body))}
  ELSE {}

\* signRequest is called with params p from call site site; invocations are
\* numbered in the order of their calls
Invoke(i, site, p) ==
  LET f == FirstSegment(module, p, clock)
  IN  /\ \A j \in 1..(i - 1) : calls[j].pc # "idle"
      /\ calls' = [calls EXCEPT ![i] =
        [@ EXCEPT !.pc = IF f.ok THEN "hashBody" ELSE "rejected",
                  !.site = site, !.p = p, !.now = f.now, !.reads = f.reads,
                  !.ops = f.ops, !.target = f.target, !.amzDate = f.amzDate,
                  !.dateStamp = f.dateStamp,
                  !.logged = LoggedBeforeSign(site, p)]]

\* BodyHashed hashing the method with the body
BodyHashedWithMethod(i) ==
  /\ calls[i].pc = "hashBody"
  /\ LET c  == calls[i]
         ph == ToHex(Sha256(<<c.p.method>> \o c.p.body))
     IN  calls' = [calls EXCEPT ![i] =
           [@ EXCEPT !.pc = "hashCanon", !.payloadHash = ph, !.ops = @ + 1,
                     !.canonicalRequest =
                        CanonicalRequest(module, c.p.method, c.target, c.amzDate, ph),
                     !.canonicalText =
                        CanonicalRequestText(module, c.p.method, c.target, c.amzDate, ph)]]
  /\ UNCHANGED <<clock, module, env, queryCheck, pathCheck, reset, handler>>

\* the digest of the body arrives: the canonical request is built and its
\* digest asked for
BodyHashed(i) ==
  /\ calls[i].pc = "hashBody"
  /\ LET c  == calls[i]
         ph == ToHex(Sha256(c.p.body))
     IN  calls' = [calls EXCEPT ![i] =
           [@ EXCEPT !.pc = "hashCanon", !.payloadHash = ph, !.ops = @ + 1,
                     !.canonicalRequest =
                        CanonicalRequest(module, c.p.method, c.target, c.amzDate, ph),
                     !.canonicalText =
                        CanonicalRequestText(module, c.p.method, c.target, c.amzDate, ph)]]
  /\ UNCHANGED <<clock, module, env, queryCheck, pathCheck, reset, handler>>

\* CanonHashed with the amzDate of the string to sign taken from a second
\* new Date()
CanonHashedFreshDate(i) ==
  /\ calls[i].pc = "hashCanon"
  /\ LET c     == calls[i]
         scope == CredentialScope(c.dateStamp, c.p.region, c.p.service)
     IN  calls' = [calls EXCEPT ![i] =
           [@ EXCEPT !.pc = "kDate", !.scope = scope, !.ops = @ + 1,
                     !.stringToSign =
                        StringToSign(AmzDateOf(clock), scope,
                                     ToHex(Sha256(c.canonicalRequest)))]]
  /\ UNCHANGED <<clock, module, env, queryCheck, pathCheck, reset, handler>>

\* CanonHashed with a credential scope that names the service 'aws'
CanonHashedOtherScope(i) ==
  /\ calls[i].pc = "hashCanon"
  /\ LET c     == calls[i]
         scope == CredentialScope(c.dateStamp, c.p.region, "aws")
     IN  calls' = [calls EXCEPT ![i] =
           [@ EXCEPT !.pc = "kDate", !.scope = scope, !.ops = @ + 1,
                     !.stringToSign =
                        StringToSign(c.amzDate, scope, ToHex(Sha256(c.canonicalRequest)))]]
  /\ UNCHANGED <<clock, module, env, queryCheck, pathCheck, reset, handler>>

\* the digest of the canonical request arrives: credential scope and string
\* to sign are built and the first HMAC of the key derivation is asked for
CanonHashed(i) ==
  /\ calls[i].pc = "hashCanon"
  /\ LET c     == calls[i]
         scope == CredentialScope(c.dateStamp, c.p.region, c.p.service)
     IN  calls' = [calls EXCEPT ![i] =
           [@ EXCEPT !.pc = "kDate", !.scope = scope, !.ops = @ + 1,
                     !.stringToSign =
                        StringToSign(c.amzDate, scope, ToHex(Sha256(c.canonicalRequest)))]]
  /\ UNCHANGED <<clock, module, env, queryCheck, pathCheck, reset, handler>>

\* KDate keyed with the date of a second new Date()
KDateFreshStamp(i) ==
  /\ calls[i].pc = "kDate"
  /\ calls' = [calls EXCEPT ![i] =
        [@ EXCEPT !.pc = "kRegion", !.ops = @ + 1,
                  !.key = Hmac(SecretKeyBytes(calls[i].p.secretAccessKey),
                               DateStampOf(AmzDateOf(clock)))]]
  /\ UNCHANGED <<clock, module, env, queryCheck, pathCheck, reset, handler>>

\* kDate = HMAC('AWS4' + secretAccessKey, dateStamp) arrives
KDate(i) ==
  /\ calls[i].pc = "kDate"
  /\ calls' = [calls EXCEPT ![i] =
        [@ EXCEPT !.pc = "kRegion", !.ops = @ + 1,
                  !.key = Hmac(SecretKeyBytes(calls[i].p.secretAccessKey),
                               calls[i].dateStamp)]]
  /\ UNCHANGED <<clock, module, env, queryCheck, pathCheck, reset, handler>>

\* kRegion = HMAC(kDate, region) arrives
KRegion(i) ==
  /\ calls[i].pc = "kRegion"
  /\ calls' = [calls EXCEPT ![i] =
        [@ EXCEPT !.pc = "kService", !.ops = @ + 1,
                  !.key = Hmac(calls[i].key, calls[i].p.region)]]
  /\ UNCHANGED <<clock, module, env, queryCheck, pathCheck, reset, handler>>

\* kService = HMAC(kRegion, service) arrives.  getSignatureKey of
\* bedrock-llm/aws-signer.ts imports these bytes as the signing key and
\* returns; the other variants ask for HMAC(kService, 'aws4_request')
KService(i) ==
  /\ calls[i].pc = "kService"
  /\ calls' = [calls EXCEPT ![i] =
        [@ EXCEPT !.pc = IF module = BLA THEN "sign" ELSE "kSigning", !.ops = @ + 1,
                  !.key = Hmac(calls[i].key, calls[i].p.service)]]
  /\ UNCHANGED <<clock, module, env, queryCheck, pathCheck, reset, handler>>

\* kSigning = HMAC(kService, 'aws4_request') arrives: the signature is asked for
KSigning(i) ==
  /\ calls[i].pc = "kSigning"
  /\ calls' = [calls EXCEPT ![i] =
        [@ EXCEPT !.pc = "sign", !.ops = @ + 1,
                  !.key = Hmac(calls[i].key, "aws4_request")]]
  /\ UNCHANGED <<clock, module, env, queryCheck, pathCheck, reset, handler>>

\* the amzDate of the invocation called last, as a variable of the module
\* shared by all invocations would hold it
LastAmzDate ==
  LET started == {j \in Slots : calls[j].now # -1}
  IN  calls[CHOOSE j \in started : \A k \in started : k <= j].amzDate

\* Signed with amzDate kept in a variable of the module
SignedSharedDate(i) ==
  /\ calls[i].pc = "sign"
  /\ LET c   == calls[i]
         sig == ToHex(Hmac(c.key, c.stringToSign))
     IN  calls' = [calls EXCEPT ![i] =
           [@ EXCEPT !.pc = "returned", !.signature = sig,
                     !.headers =
                        ReturnedHeaders(module, c.target.host, LastAmzDate, c.payloadHash,
                          AuthorizationHeader(module, c.p.accessKeyId, c.scope, sig))]]
  /\ UNCHANGED <<clock, module, env, queryCheck, pathCheck, reset, handler>>

\* the signature arrives: the Authorization value is composed and the
\* header mapping returned
Signed(i) ==
  /\ calls[i].pc = "sign"
  /\ LET c   == calls[i]
         sig == ToHex(Hmac(c.key, c.stringToSign))
     IN  calls' = [calls EXCEPT ![i] =
           [@ EXCEPT !.pc = "returned", !.signature = sig,
                     !.headers =
                        ReturnedHeaders(module, c.target.host, c.amzDate, c.payloadHash,
                          AuthorizationHeader(module, c.p.accessKeyId, c.scope, sig))]]
  /\ UNCHANGED <<clock, module, env, queryCheck, pathCheck, reset, handler>>

\* time passes
Tick ==
  /\ clock < MaxClock
  /\ clock' = clock + 1
  /\ UNCHANGED <<module, env, calls, queryCheck, pathCheck, reset, handler>>

(***************************************************************************)
(* The callers.  A call site of a handler is a record: the signer modules  *)
(* it may import, whether it trims AWS_REGION, the request it signs, and   *)
(* the headers it sets on the returned mapping before it calls fetch.      *)
(***************************************************************************)
\* the modules that export signRequest(options); the import './aws-signer.ts'
\* of a handler whose signer file is not named resolves to one of them
Exported == {BLA, LFM, GUU, LRF, PT1, LS3}

EmptyJson == <<"{", "}">>

Site(name, modules, trims, method, service, hostPrefix, path, query, body, setCT, setHost) ==
  [name |-> name, modules |-> modules, trims |-> trims, method |-> method,
   service |-> service, hostPrefix |-> hostPrefix, path |-> path, query |-> query,
   body |-> body, setContentType |-> setCT, setHost |-> setHost]

DataSourcesPath(kb) == <<"/", "knowledgebases", "/", kb, "/", "datasources">>

ListQuery == << << <<"list-type">>, <<"2">> >>, << <<"max-keys">>, <<"1000">> >> >>

HandlerSites ==
  { Site("list-foundation-models/index.ts:117", {LFM}, FALSE, "GET", "bedrock",
         <<"bedrock">>, <<"/", "foundation-models">>, <<>>, <<>>, FALSE, FALSE),
    Site("bedrock-llm/index.ts:219", {BLI}, FALSE, "POST", "bedrock",
         <<"bedrock-agent-runtime">>, <<"/", "retrieveAndGenerate">>, <<>>, EmptyJson,
         FALSE, FALSE),
    Site("list-repository-files/index.ts:126", {LRF}, TRUE, "GET", "s3",
         <<"bucket", "s3">>, <<"/">>, ListQuery, <<>>, FALSE, FALSE),
    Site("generate-presigned-url/index.ts:202", {GPI}, TRUE, "POST", "bedrock",
         <<"bedrock-agent">>, DataSourcesPath("KB1") \o <<"/">>, <<>>, EmptyJson,
         TRUE, TRUE),
    Site("generate-presigned-url/index.ts:228", {GPI}, TRUE, "GET", "bedrock",
         <<"bedrock-agent">>, DataSourcesPath("KB1") \o <<"/", "DS1">>, <<>>, <<>>,
         TRUE, FALSE),
    Site("unnamed/part_002:90", {GUU}, TRUE, "POST", "bedrock",
         <<"bedrock-agent">>, DataSourcesPath("KB1") \o <<"/">>, <<>>, EmptyJson,
         TRUE, TRUE),
    Site("list-s3-objects/index.ts:88", Exported, TRUE, "POST", "bedrock",
         <<"bedrock-agent">>, DataSourcesPath("KB1") \o <<"/">>, <<>>, EmptyJson,
         TRUE, TRUE),
    Site("list-s3-objects/index.ts:117", Exported, TRUE, "GET", "bedrock",
         <<"bedrock-agent">>, DataSourcesPath("KB1") \o <<"/", "DS1">>, <<>>, <<>>,
         TRUE, FALSE),
    Site("list-s3-objects/index.ts:222", Exported, TRUE, "GET", "s3",
         <<"bucket", "s3">>, <<"/">>, ListQuery, <<>>, FALSE, FALSE),
    Site("unnamed/part_000:103", Exported, FALSE, "POST", "bedrock",
         <<"bedrock-agent">>, <<"/", "knowledgebases", "/">>, <<>>, EmptyJson,
         TRUE, TRUE),
    Site("unnamed/part_001:255", Exported, TRUE, "DELETE", "s3",
         <<"bucket", "s3">>, <<"/", "file">>, <<>>, <<>>, FALSE, FALSE) }
  \cup
  \* the Promise.all fan-out of list-knowledge-bases, one call per knowledge base
  { Site("unnamed/part_000:154", Exported, FALSE, "GET", "bedrock",
         <<"bedrock-agent">>, DataSourcesPath(kb), <<>>, <<>>, TRUE, TRUE)
      : kb \in {"KB1", "KB2"} }

\* (Deno.env.get("AWS_REGION") || "us-east-1").trim(), or without the trim
AwsRegion(site) ==
  IF env.AWS_REGION = "" THEN "us-east-1"
  ELSE IF site.trims /\ env.AWS_REGION = "us-east-1 " THEN "us-east-1"
  ELSE env.AWS_REGION

\* a handler that passes the literal "us-east-1" as region
HandlerParamsFixedRegion(site) ==
  [method |-> site.method,
   url |-> [scheme |-> "https",
            host |-> site.hostPrefix \o <<AwsRegion(site), "amazonaws", "com">>,
            port |-> "", path |-> site.path, query |-> site.query],
   host |-> <<>>, path |-> <<>>, body |-> site.body,
   region |-> "us-east-1", service |-> site.service,
   accessKeyId |-> env.AWS_ACCESS_KEY_ID,
   secretAccessKey |-> env.AWS_SECRET_ACCESS_KEY]

\* the url, region, service and credentials a handler passes to signRequest
HandlerParams(site) ==
  [method |-> site.method,
   url |-> [scheme |-> "https",
            host |-> site.hostPrefix \o <<AwsRegion(site), "amazonaws", "com">>,
            port |-> "", path |-> site.path, query |-> site.query],
   host |-> <<>>, path |-> <<>>, body |-> site.body,
   region |-> AwsRegion(site), service |-> site.service,
   accessKeyId |-> env.AWS_ACCESS_KEY_ID,
   secretAccessKey |-> env.AWS_SECRET_ACCESS_KEY]

\* a handler that sets Host to the endpoint of another service
HandlerHeadersOtherHost(site, hs) ==
  LET h1 == IF site.setContentType
            THEN SetHeader(hs, "Content-Type", TextValue(<<"application/json">>))
            ELSE hs
  IN  IF site.setHost
      THEN SetHeader(h1, "Host",
                     TextValue(<<"bedrock", AwsRegion(site), "amazonaws", "com">>))
      ELSE h1

\* headers["Content-Type"] = "application/json" and
\* headers["Host"] = `bedrock-agent.${awsRegion}.amazonaws.com`, where the
\* handler makes these assignments between signRequest and fetch
HandlerHeaders(site, hs) ==
  LET h1 == IF site.setContentType
            THEN SetHeader(hs, "Content-Type", TextValue(<<"application/json">>))
            ELSE hs
  IN  IF site.setHost
      THEN SetHeader(h1, "Host",
                     TextValue(<<"bedrock-agent", AwsRegion(site), "amazonaws", "com">>))
      ELSE h1

\* a handler reaches a call site; it has answered 500 before when a
\* credential is missing
HandlerCall(i) ==
  /\ calls[i].pc = "idle"
  /\ env.AWS_ACCESS_KEY_ID # "" /\ env.AWS_SECRET_ACCESS_KEY # ""
  /\ \E site \in HandlerSites :
       /\ module \in site.modules
       /\ Invoke(i, site, HandlerParams(site))
  /\ UNCHANGED <<clock, module, env, queryCheck, pathCheck, reset, handler>>

(***************************************************************************)
(* signRequest called on its own, with any parameters.                     *)
(***************************************************************************)
GoodAccessKeyId == "AKIDEXAMPLE"

GoodSecretAccessKey == "wJalrXUtnFEMI/K7MDENG/bPxRfiCYEXAMPLEKEY"

\* https://EXAMPLE.com/k
PlainUrl ==
  [scheme |-> "https", host |-> <<"EXAMPLE", "com">>, port |-> "",
   path |-> <<"/", "k">>, query |-> <<>>]

\* https://example.com:8443/k%20z?z=2&k=5
PortUrl ==
  [scheme |-> "https", host |-> <<"example", "com">>, port |-> "8443",
   path |-> <<"/", "k", "%", "2", "0", "z">>,
   query |-> << << <<"z">>, <<"2">> >>, << <<"k">>, <<"5">> >> >>]

\* example.com/k, which is no absolute URL
RelativeUrl ==
  [scheme |-> "", host |-> <<"example", "com">>, port |-> "",
   path |-> <<"/", "k">>, query |-> <<>>]

DirectSite == [NoSite EXCEPT !.name = "direct"]

Params(method, url, host, path, body, accessKeyId, secretAccessKey) ==
  [method |-> method, url |-> url, host |-> host, path |-> path, body |-> body,
   region |-> "us-east-1", service |-> "s3",
   accessKeyId |-> accessKeyId, secretAccessKey |-> secretAccessKey]

DirectParams ==
  { Params("GET", u, <<>>, <<>>, <<>>, GoodAccessKeyId, GoodSecretAccessKey)
      : u \in {PlainUrl, PortUrl, RelativeUrl} }
  \cup
  { Params("POST", NoUrl, hp[1], hp[2], EmptyJson, GoodAccessKeyId, GoodSecretAccessKey)
      : hp \in { << <<"example", "com">>, <<"/", "k">> >>, << <<>>, <<>> >> } }
  \cup
  { Params("GET", PlainUrl, <<>>, <<>>, <<>>, k[1], k[2])
      : k \in { <<"", GoodSecretAccessKey>>, <<GoodAccessKeyId, "">> } }

Call(i) ==
  /\ calls[i].pc = "idle"
  /\ \E p \in DirectParams : Invoke(i, DirectSite, p)
  /\ UNCHANGED <<clock, module, env, queryCheck, pathCheck, reset, handler>>

\* a handler that leaves the body out of every fetch
FetchArgumentsNoBody(site, p) ==
  IF site = DirectSite THEN [method |-> p.method, url |-> p.url, body |-> <<>>]
  ELSE [method |-> site.method, url |-> HandlerParams(site).url, body |-> <<>>]

\* the arguments of fetch(url, { method, headers, body }): a handler writes the
\* method as a literal again, passes the URL it signed and, where the body
\* it signed is not the empty string, that body; a direct caller sends what
\* it signed
FetchArguments(site, p) ==
  IF site = DirectSite THEN [method |-> p.method, url |-> p.url, body |-> p.body]
  ELSE [method |-> site.method, url |-> HandlerParams(site).url,
        body |-> IF site.body = <<>> THEN <<>> ELSE site.body]

\* a handler that logs the options object it passed to signRequest
LoggedAfterSignWithOptions(site, p, hs) ==
  IF site = DirectSite THEN {}
  ELSE {LogEntry("url", TextValue(UrlText(p.url))),
        LogEntry("region", TextValue(<<p.region>>)),
        LogEntry("accessKeyId", TextValue(<<p.accessKeyId>>)),
        LogEntry("secretAccessKey", TextValue(<<p.secretAccessKey>>))}

\* what a handler logs between the return of signRequest and fetch
LoggedAfterSign(site, p, hs) ==
  CASE site.name = "list-s3-objects/index.ts:222" ->
         {LogEntry("url", TextValue(UrlText(p.url))),
          LogEntry("region", TextValue(<<p.region>>)),
          LogEntry("bucket", TextValue(<<p.url.host[1]>>)),
          LogEntry("hasAuth", TextValue(<<IF HasHeaderNamed(hs, "Authorization")
                                          THEN "true" ELSE "false">>))}
    [] site.name = "unnamed/part_001:255" ->
         {LogEntry("url", TextValue(UrlText(p.url))),
          LogEntry("region", TextValue(<<p.region>>)),
          LogEntry("bucket", TextValue(<<p.url.host[1]>>)),
          LogEntry("key", TextValue(Tail(p.url.path)))}
    [] site.name = "copy-repository-files/index.ts:288" ->
         {LogEntry("copyUrl", TextValue(UrlText(p.url)))}
    [] site.name = "unnamed/part_000:154" ->
         {LogEntry("dsEndpoint", TextValue(UrlText(p.url)))}
    [] OTHER -> {}

\* the caller resumes with the returned mapping, makes its assignments and
\* calls fetch(url, { method, headers, body })
Fetch(i) ==
  /\ calls[i].pc = "returned"
  /\ calls[i].p.url # NoUrl
  /\ LET args == FetchArguments(calls[i].site, calls[i].p)
     IN  calls' = [calls EXCEPT ![i] =
           [@ EXCEPT !.pc = "sent",
                     !.request = [method |-> args.method, url |-> args.url,
                                  headers |-> HandlerHeaders(calls[i].site, calls[i].headers),
                                  body |-> args.body],
                     !.logged = @ \cup LoggedAfterSign(calls[i].site, calls[i].p,
                                                       calls[i].headers)]]
  /\ UNCHANGED <<clock, module, env, queryCheck, pathCheck, reset, handler>>

(***************************************************************************)
(* The specifications.                                                     *)
(***************************************************************************)
NoCheck == [pc |-> "off"]

\* no password-reset request has been made
NoReset == [pc |-> "off"]

\* no handler above signRequest is being followed
NoHandler == [pc |-> "off"]

DefaultEnv ==
  [AWS_REGION |-> "", AWS_ACCESS_KEY_ID |-> GoodAccessKeyId,
   AWS_SECRET_ACCESS_KEY |-> GoodSecretAccessKey]

Init ==
  /\ clock = 0
  /\ module \in Variants
  /\ env = DefaultEnv
  /\ calls = [i \in Slots |-> IdleCall]
  /\ queryCheck = NoCheck
  /\ pathCheck = NoCheck
  /\ reset = NoReset
  /\ handler = NoHandler

Step(i) ==
  \/ BodyHashed(i) \/ CanonHashed(i) \/ KDate(i) \/ KRegion(i)
  \/ KService(i) \/ KSigning(i) \/ Signed(i) \/ Fetch(i)

Next == Tick \/ \E i \in Slots : Call(i) \/ Step(i)

\* signRequest called with any parameters, concurrently
Spec == Init /\ [][Next]_vars

InitHandlers ==
  /\ clock = 0
  /\ module \in Variants
  /\ env \in {[DefaultEnv EXCEPT !.AWS_REGION = r] : r \in {"", "eu-west-1", "us-east-1 "}}
  /\ calls = [i \in Slots |-> IdleCall]
  /\ queryCheck = NoCheck
  /\ pathCheck = NoCheck
  /\ reset = NoReset
  /\ handler = NoHandler

NextHandlers == \E i \in Slots : HandlerCall(i) \/ Step(i)

\* the call sites of the handlers, concurrently, at one instant of the clock
SpecHandlers == InitHandlers /\ [][NextHandlers]_vars

(***************************************************************************)
(* signRequest as one computation: what an invocation returns when it runs *)
(* alone with parameters p and reads instant now from the clock.           *)
(***************************************************************************)
SignAlone(v, p, now) ==
  LET target  == ResolveTarget(v, p)
      amzDate == AmzDateOf(now)
      stamp   == DateStampOf(amzDate)
      payload == ToHex(Sha256(p.body))
      request == CanonicalRequest(v, p.method, target, amzDate, payload)
      scope   == CredentialScope(stamp, p.region, p.service)
      toSign  == StringToSign(amzDate, scope, ToHex(Sha256(request)))
      kDate   == Hmac(SecretKeyBytes(p.secretAccessKey), stamp)
      kService == Hmac(Hmac(kDate, p.region), p.service)
      kSign   == IF v = BLA THEN kService ELSE Hmac(kService, "aws4_request")
      sig     == ToHex(Hmac(kSign, toSign))
  IN  ReturnedHeaders(v, target.host, amzDate, payload,
                      AuthorizationHeader(v, p.accessKeyId, scope, sig))

\* a header mapping has a key of that name, names compared without case
HasHeader(hs, lname) == \E i \in 1..Len(hs) : LowerName(hs[i].name) = lname

\* the Authorization value of a header mapping
AuthorizationOf(hs) ==
  hs[CHOOSE i \in 1..Len(hs) : LowerName(hs[i].name) = "authorization"].value.term[1]

(***************************************************************************)
(* The query-ordering check: one request signed twice, its query           *)
(* parameters written in two orders.                                       *)
(***************************************************************************)
\* keys and values as written in a URL; '+' is a space there
QueryPairs == {<<k, v>> : k \in {<<"k">>, <<"K">>}, v \in {<<"2">>, <<"5">>, <<"+">>}}

QueryInputs == UNION {[1..n -> QueryPairs] : n \in 0..MaxPairs}

Reorderings(q) ==
  LET n == Len(q)
  IN  {[i \in 1..n |-> q[f[i]]] :
         f \in {g \in [1..n -> 1..n] : \A x, y \in 1..n : g[x] = g[y] => x = y}}

QueryParams(q) ==
  Params("GET", [PlainUrl EXCEPT !.query = q], <<>>, <<>>, <<>>,
         GoodAccessKeyId, GoodSecretAccessKey)

\* the canonical query string and the signature of the request with query q
QueryResult(q) ==
  [canonicalQuery |-> ResolveTarget(module, QueryParams(q)).query,
   signature |-> AuthorizationOf(SignAlone(module, QueryParams(q), clock)).signature]

InitQuery ==
  /\ clock = 0
  /\ module \in {GUU, GPI}
  /\ env = DefaultEnv
  /\ calls = [i \in Slots |-> IdleCall]
  /\ queryCheck \in UNION {{[pc |-> "first", first |-> a, second |-> b,
                              resultFirst |-> NoTerm, resultSecond |-> NoTerm]
                               : b \in Reorderings(a)} : a \in QueryInputs}
  /\ pathCheck = NoCheck
  /\ reset = NoReset
  /\ handler = NoHandler

SignFirst ==
  /\ queryCheck.pc = "first"
  /\ queryCheck' = [queryCheck EXCEPT !.pc = "second",
                                      !.resultFirst = QueryResult(queryCheck.first)]
  /\ UNCHANGED <<clock, module, env, calls, pathCheck, reset, handler>>

SignSecond ==
  /\ queryCheck.pc = "second"
  /\ queryCheck' = [queryCheck EXCEPT !.pc = "done",
                                      !.resultSecond = QueryResult(queryCheck.second)]
  /\ UNCHANGED <<clock, module, env, calls, pathCheck, reset, handler>>

NextQuery == SignFirst \/ SignSecond

SpecQuery == InitQuery /\ [][NextQuery]_vars

(***************************************************************************)
(* The canonical-URI check: the canonicalURI helper applied to the         *)
(* pathname of a URL whose path is written with percent escapes.           *)
(***************************************************************************)
PathChars == {"k", "%", "2", "0", "!"}

SegmentInputs == UNION {[1..n -> PathChars] : n \in 0..MaxSegment}

PathUrl(segment) == [PlainUrl EXCEPT !.path = <<"/">> \o segment]

InitPath ==
  /\ clock = 0
  /\ module \in {LFM, GUU, GPI}
  /\ env = DefaultEnv
  /\ calls = [i \in Slots |-> IdleCall]
  /\ queryCheck = NoCheck
  /\ pathCheck \in {[pc |-> "ready", segment |-> s, uri |-> <<>>] : s \in SegmentInputs}
  /\ reset = NoReset
  /\ handler = NoHandler

CanonicalizePath ==
  /\ pathCheck.pc = "ready"
  /\ pathCheck' = [pathCheck EXCEPT !.pc = "done",
                     !.uri = TargetOfUrl(module, PathUrl(pathCheck.segment)).uri]
  /\ UNCHANGED <<clock, module, env, calls, queryCheck, reset, handler>>

NextPath == CanonicalizePath

SpecPath == InitPath /\ [][NextPath]_vars

(***************************************************************************)
(* Properties.                                                             *)
(***************************************************************************)
Finished(c) == c.pc \in {"returned", "sent"}

\* the value the canonical headers block holds for a signed header
CanonicalValue(c, lname) ==
  c.canonicalRequest.headers[
    CHOOSE k \in 1..Len(c.canonicalRequest.headers) :
      c.canonicalRequest.headers[k].name = lname].value

\* C1: in every signRequest variant each header name listed in SignedHeaders
\* is, compared without case, a key of the header mapping signRequest returns.
C1_SignedHeadersAreReturned ==
  \A i \in Slots :
    Finished(calls[i]) =>
      LET names == AuthorizationOf(calls[i].headers).signedHeaders
      IN  \A k \in 1..Len(names) : HasHeader(calls[i].headers, names[k])

\* C2: in the generate-upload-url signer and the inline signer of
\* generate-presigned-url, two URLs that differ only in the order in which
\* their query parameters are written yield the same canonical query string
\* and the same signature.
C2_QueryOrderInvariance ==
  queryCheck.pc = "done" =>
    /\ queryCheck.resultFirst.canonicalQuery = queryCheck.resultSecond.canonicalQuery
    /\ queryCheck.resultFirst.signature = queryCheck.resultSecond.signature

\* two parameters of one key and different values were written in two orders
C2_Witness ==
  /\ queryCheck.pc = "done"
  /\ queryCheck.first # queryCheck.second
  /\ \E x, y \in 1..Len(queryCheck.first) :
       /\ queryCheck.first[x][1] = queryCheck.first[y][1]
       /\ queryCheck.first[x][2] # queryCheck.first[y][2]
       /\ queryCheck.second[x] = queryCheck.first[y]
       /\ queryCheck.second[y] = queryCheck.first[x]

\* the path segment written with escapes, decoded and encoded exactly once
EncodedOnce(segment) == <<"/">> \o encodeURIComponent2(decodeURIComponent(segment))

WellEscaped(segment) ==
  /\ \E k \in 1..Len(segment) : segment[k] = "%"
  /\ decodeURIComponent(segment) # Thrown

\* C3: in the signers that build the canonical URI with the canonicalURI
\* helper on URL.pathname, a path segment that is already percent-encoded
\* yields the canonical URI of its decoded form encoded exactly once; no
\* %XX sequence is encoded again.
C3_CanonicalUriEncodesOnce ==
  (pathCheck.pc = "done" /\ WellEscaped(pathCheck.segment)) =>
    pathCheck.uri = EncodedOnce(pathCheck.segment)

\* C4: two invocations of one variant with equal parameters that observe the
\* same clock reading return identical header mappings.
C4_Determinism ==
  \A i, j \in Slots :
    (/\ Finished(calls[i]) /\ Finished(calls[j])
     /\ calls[i].p = calls[j].p
     /\ calls[i].now = calls[j].now) =>
      calls[i].headers = calls[j].headers

\* two invocations with equal parameters read the same instant and both
\* returned after the clock had moved on
C4_Witness ==
  /\ Finished(calls[1]) /\ Finished(calls[2])
  /\ calls[1].p = calls[2].p
  /\ calls[1].now = calls[2].now
  /\ clock > calls[1].now

\* the request carries, for the signed header lname, the value that was signed:
\* every entry of the mapping under that name holds it, the Host the client
\* derives from the URL is it, and any other signed header is in the mapping
SentAsSigned(c, lname) ==
  /\ \A k \in 1..Len(c.request.headers) :
       LowerName(c.request.headers[k].name) = lname =>
         c.request.headers[k].value = CanonicalValue(c, lname)
  /\ lname = "host" => TextValue(hostWithPort(c.request.url)) = CanonicalValue(c, lname)
  /\ lname # "host" => HasHeader(c.request.headers, lname)

C6_SignedHostIsSentHost ==
  \A i \in Slots :
    calls[i].pc = "sent" =>
      /\ CanonicalValue(calls[i], "host") = TextValue(hostWithPort(calls[i].request.url))
      /\ \A k \in 1..Len(calls[i].headers) :
           LowerName(calls[i].headers[k].name) = "host" =>
             calls[i].headers[k].value = TextValue(hostWithPort(calls[i].request.url))

\* C7: the clock is read exactly once per invocation; X-Amz-Date, the date
\* line of the string to sign, the date of the credential scope and the date
\* that keys the derivation all come from that one reading.
C7_SingleClockReading ==
  \A i \in Slots :
    Finished(calls[i]) =>
      LET c       == calls[i]
          amzDate == AmzDateOf(c.now)
          stamp   == DateStampOf(amzDate)
      IN  /\ c.reads = 1
          /\ \A k \in 1..Len(c.headers) :
               LowerName(c.headers[k].name) = "x-amz-date" =>
                 c.headers[k].value = TextValue(amzDate)
          /\ HasHeader(c.headers, "x-amz-date")
          /\ CanonicalValue(c, "x-amz-date") = TextValue(amzDate)
          /\ c.stringToSign.amzDate = amzDate
          /\ c.stringToSign.scope.dateStamp = stamp
          /\ AuthorizationOf(c.headers).scope.dateStamp = stamp
          /\ (IF c.key.data = "aws4_request" THEN c.key.key ELSE c.key).key.key.data
               = stamp

\* an invocation returned on the UTC day after the day it read the clock
C7_Witness ==
  \E i \in Slots :
    /\ Finished(calls[i])
    /\ DateStampOf(AmzDateOf(clock)) # DateStampOf(AmzDateOf(calls[i].now))

\* the target of the parameters: a url that parses or, without a url, both
\* host and path where the variant takes them
TargetGiven(v, p) ==
  IF p.url # NoUrl THEN UrlParses(p.url)
  ELSE v = BLA /\ p.host # <<>> /\ p.path # <<>>

\* C8: an invocation whose URL does not parse, or which has neither a url nor
\* both host and path, signals an error before any digest or HMAC operation
\* is invoked, and nothing is retried.
C8_RejectedBeforeCrypto ==
  \A i \in Slots :
    (calls[i].pc # "idle" /\ ~TargetGiven(module, calls[i].p)) =>
      /\ calls[i].pc = "rejected"
      /\ calls[i].ops = 0
      /\ calls[i].headers = <<>>

\* one invocation was rejected for a URL that does not parse, another for
\* having no target at all
C8_Witness ==
  \E i, j \in Slots :
    /\ calls[i].pc = "rejected" /\ calls[i].p.url = RelativeUrl
    /\ calls[j].pc = "rejected" /\ calls[j].p.url = NoUrl

C10_ConcurrentCallsIndependent ==
  \A i \in Slots :
    Finished(calls[i]) => calls[i].headers = SignAlone(module, calls[i].p, calls[i].now)

\* two invocations with different parameters and different clock readings
\* were in flight together and both returned
C10_Witness ==
  /\ calls[1].pc = "returned" /\ calls[2].pc = "returned"
  /\ calls[1].p # calls[2].p
  /\ calls[1].now # calls[2].now

(***************************************************************************)
(* Every call site of signRequest in the handlers, one request at a time.  *)
(***************************************************************************)
ModelPath == <<"/", "model", "/", "MODEL1", "/", "converse">>

\* the call sites HandlerSites leaves out: they repeat the shape of one of
\* its sites with another path, method or file.  copy-repository-files
\* imports a signer that is not among the sources; the exported signers
\* stand for it, its extraHeaders option put aside.
OtherSites ==
  { Site("bedrock-llm/index.ts:304", {BLI}, FALSE, "POST", "bedrock",
         <<"bedrock-runtime">>, ModelPath, <<>>, EmptyJson, FALSE, FALSE),
    Site("bedrock-llm/index.ts:399", {BLI}, FALSE, "POST", "bedrock",
         <<"bedrock-runtime">>, ModelPath, <<>>, EmptyJson, FALSE, FALSE),
    Site("list-foundation-models/index.ts:155", {LFM}, FALSE, "GET", "bedrock",
         <<"bedrock">>, <<"/", "inference-profiles">>, <<>>, <<>>, FALSE, FALSE),
    Site("copy-repository-files/index.ts:126", Exported, TRUE, "POST", "bedrock",
         <<"bedrock-agent">>, DataSourcesPath("KB1") \o <<"/">>, <<>>, EmptyJson,
         TRUE, TRUE),
    Site("copy-repository-files/index.ts:182", Exported, TRUE, "GET", "bedrock",
         <<"bedrock-agent">>, DataSourcesPath("KB1") \o <<"/", "DS1">>, <<>>, <<>>,
         TRUE, FALSE),
    Site("copy-repository-files/index.ts:288", Exported, TRUE, "PUT", "s3",
         <<"bucket", "s3">>, <<"/", "file">>, <<>>, <<>>, FALSE, FALSE),
    Site("list-s3-objects/index.ts:629", Exported, FALSE, "POST", "bedrock",
         <<"bedrock-agent">>, DataSourcesPath("KB1") \o <<"/">>, <<>>, EmptyJson,
         TRUE, TRUE),
    Site("list-s3-objects/index.ts:708", Exported, FALSE, "PUT", "bedrock",
         <<"bedrock-agent">>,
         DataSourcesPath("KB1") \o <<"/", "DS1", "/", "ingestionjobs", "/">>, <<>>,
         EmptyJson, TRUE, TRUE),
    Site("unnamed/part_001:153", Exported, TRUE, "POST", "bedrock",
         <<"bedrock-agent">>, DataSourcesPath("KB1") \o <<"/">>, <<>>, EmptyJson,
         TRUE, TRUE),
    Site("unnamed/part_001:179", Exported, TRUE, "GET", "bedrock",
         <<"bedrock-agent">>, DataSourcesPath("KB1") \o <<"/", "DS1">>, <<>>, <<>>,
         TRUE, FALSE),
    Site("unnamed/part_002:119", {GUU}, TRUE, "GET", "bedrock",
         <<"bedrock-agent">>, DataSourcesPath("KB1") \o <<"/", "DS1">>, <<>>, <<>>,
         TRUE, FALSE),
    Site("unnamed/part_002:316", Exported, TRUE, "POST", "bedrock",
         <<"bedrock-agent">>, DataSourcesPath("KB1") \o <<"/">>, <<>>, EmptyJson,
         TRUE, TRUE),
    Site("unnamed/part_002:342", Exported, TRUE, "GET", "bedrock",
         <<"bedrock-agent">>, DataSourcesPath("KB1") \o <<"/", "DS1">>, <<>>, <<>>,
         TRUE, FALSE) }

AllSites == HandlerSites \cup OtherSites

\* a handler reaches one of its call sites
\* a handler that reaches its call site without looking at the credentials
SiteCallUnchecked ==
  /\ calls[1].pc = "idle"
  /\ \E site \in AllSites :
       /\ module \in site.modules
       /\ Invoke(1, site, HandlerParams(site))
  /\ UNCHANGED <<clock, module, env, queryCheck, pathCheck, reset, handler>>

SiteCall ==
  /\ calls[1].pc = "idle"
  /\ env.AWS_ACCESS_KEY_ID # "" /\ env.AWS_SECRET_ACCESS_KEY # ""
  /\ \E site \in AllSites :
       /\ module \in site.modules
       /\ Invoke(1, site, HandlerParams(site))
  /\ UNCHANGED <<clock, module, env, queryCheck, pathCheck, reset, handler>>

NextSites == SiteCall \/ Step(1)

SpecSites == InitHandlers /\ [][NextSites]_vars

\* C11: in every handler each fetch to AWS uses the method, the URL and the
\* body (no body where the empty string was signed) that were passed to the
\* signRequest call whose headers it carries, and a result of signRequest is
\* used for that one request only.
C11_SentIsSigned ==
  /\ [](\A i \in Slots :
          calls[i].pc = "sent" =>
            /\ calls[i].request.method = calls[i].p.method
            /\ calls[i].request.url = calls[i].p.url
            /\ calls[i].request.body = calls[i].p.body
            /\ AuthorizationOf(calls[i].request.headers)
                 = AuthorizationOf(calls[i].headers))
  /\ [][\A i \in Slots : calls[i].pc = "sent" => calls'[i] = calls[i]]_vars

\* a request with a body was sent
C11_Witness ==
  /\ calls[1].pc = "sent"
  /\ calls[1].p.body # <<>>
  /\ calls[1].site \in OtherSites

\* the text e3b0c44298fc1c149afbf4c8996fb92427ae41e4649b934ca495991b7852b855:
\* the SHA-256 digest of the empty string in lower-case hex
EmptyPayloadHash == ToHex(Sha256(<<>>))

\* C12: whenever the body passed to signRequest is the empty string, the
\* payload hash on the last line of the canonical request, and in
\* x-amz-content-sha256 where that header is produced, is the SHA-256 of the
\* empty string, whatever the method.
C12_EmptyBodyHash ==
  \A i \in Slots :
    (Finished(calls[i]) /\ calls[i].p.body = <<>>) =>
      /\ calls[i].canonicalRequest.payloadHash = EmptyPayloadHash
      /\ \A k \in 1..Len(calls[i].headers) :
           LowerName(calls[i].headers[k].name) = "x-amz-content-sha256" =>
             calls[i].headers[k].value = TermValue(EmptyPayloadHash)
      /\ \A k \in 1..Len(calls[i].canonicalRequest.headers) :
           calls[i].canonicalRequest.headers[k].name = "x-amz-content-sha256" =>
             calls[i].canonicalRequest.headers[k].value = TermValue(EmptyPayloadHash)

\* a bodyless request of a method other than GET was signed by a variant
\* that produces x-amz-content-sha256
C12_Witness ==
  /\ Finished(calls[1])
  /\ calls[1].p.body = <<>>
  /\ calls[1].p.method \in {"DELETE", "PUT"}
  /\ HasHeader(calls[1].headers, "x-amz-content-sha256")

(***************************************************************************)
(* The request of AWS's documented GET Object example, signed at           *)
(* 2013-05-24T00:00:00Z.                                                   *)
(***************************************************************************)
\* 2013-05-24T00:00:00Z on the clock of the model
VectorInstant == 0 - (23 * 3600 + 59 * 60 + 58)

VectorUrl ==
  [scheme |-> "https", host |-> <<"examplebucket", "s3", "amazonaws", "com">>,
   port |-> "", path |-> <<"/", "test.txt">>, query |-> <<>>]

VectorParams ==
  Params("GET", VectorUrl, <<>>, <<>>, <<>>, GoodAccessKeyId, GoodSecretAccessKey)

InitVector ==
  /\ clock = VectorInstant
  /\ module \in Variants
  /\ env = DefaultEnv
  /\ calls = [i \in Slots |-> IdleCall]
  /\ queryCheck = NoCheck
  /\ pathCheck = NoCheck
  /\ reset = NoReset
  /\ handler = NoHandler

VectorCall(i) ==
  /\ calls[i].pc = "idle"
  /\ Invoke(i, DirectSite, VectorParams)
  /\ UNCHANGED <<clock, module, env, queryCheck, pathCheck, reset, handler>>

NextVector == \E i \in Slots : VectorCall(i) \/ Step(i)

SpecVector == InitVector /\ [][NextVector]_vars

\* the signature f0e8bdb8...6036bdb41 of AWS's example: the canonical request
\* of the documentation signs host, range, x-amz-content-sha256 and x-amz-date
DocumentedSignature ==
  LET amzDate == <<"2", "0", "1", "3", "0", "5", "2", "4", "T",
                   "0", "0", "0", "0", "0", "0", "Z">>
      stamp   == SubSeq(amzDate, 1, 8)
      request ==
        [method |-> "GET", uri |-> <<"/", "test.txt">>, query |-> <<>>,
         headers |->
           <<Header("host", TextValue(<<"examplebucket", "s3", "amazonaws", "com">>)),
             Header("range", TextValue(<<"bytes=0-9">>)),
             Header("x-amz-content-sha256", TermValue(EmptyPayloadHash)),
             Header("x-amz-date", TextValue(amzDate))>>,
         signedHeaders |-> <<"host", "range", "x-amz-content-sha256", "x-amz-date">>,
         payloadHash |-> EmptyPayloadHash]
      scope   == [dateStamp |-> stamp, region |-> "us-east-1", service |-> "s3",
                  terminator |-> "aws4_request"]
      toSign  == [algorithm |-> "AWS4-HMAC-SHA256", amzDate |-> amzDate,
                  scope |-> scope, hash |-> ToHex(Sha256(request))]
      kDate   == Hmac(<<"AWS4", "wJalrXUtnFEMI/K7MDENG/bPxRfiCYEXAMPLEKEY">>, stamp)
      kSign   == Hmac(Hmac(Hmac(kDate, "us-east-1"), "s3"), "aws4_request")
  IN  ToHex(Hmac(kSign, toSign))

\* C13: signing GET examplebucket.s3.amazonaws.com /test.txt with empty body,
\* region us-east-1, service s3 and the example credentials at
\* 2013-05-24T00:00:00Z gives AWS's documented example signature in the
\* Signature= field of the Authorization value.
C13_KnownVector ==
  \A i \in Slots :
    (Finished(calls[i]) /\ calls[i].p = VectorParams /\ calls[i].now = VectorInstant) =>
      AuthorizationOf(calls[i].headers).signature = DocumentedSignature

\* the secret access key of an invocation and the keys derived from it
SecretsOf(c) ==
  LET secret   == SecretKeyBytes(c.p.secretAccessKey)
      kDate    == Hmac(secret, c.dateStamp)
      kRegion  == Hmac(kDate, c.p.region)
      kService == Hmac(kRegion, c.p.service)
      kSigning == Hmac(kService, "aws4_request")
  IN  {TextValue(<<c.p.secretAccessKey>>), TextValue(secret), TermValue(kDate),
       TermValue(kRegion), TermValue(kService), TermValue(kSigning)}

TenMinutes == 10 * 60 * 1000

FiveMinutes == 5 * 60 * 1000

\* the addresses of the registered users, and an address of nobody
UserEmails == {"a@example.com"}

Emails == UserEmails \cup {"nobody@example.com"}

\* Math.floor(1000 + Math.random() * 9000).toString()
Codes == {"1000", "9999"}

ResetIds == 1..MaxResets

IdleReset == [pc |-> "idle", email |-> "", code |-> "", expiresAt |-> 0, madeAt |-> 0]

IdleVerify == [pc |-> "idle", email |-> "", code |-> "", at |-> 0, row |-> 0]

ResetStart ==
  [pc |-> "on", now |-> 0, rows |-> <<>>,
   req |-> [i \in ResetIds |-> IdleReset], ver |-> [j \in ResetIds |-> IdleVerify]]

InitReset ==
  /\ clock = 0
  /\ module = GUU
  /\ env = DefaultEnv
  /\ calls = [i \in Slots |-> IdleCall]
  /\ queryCheck = NoCheck
  /\ pathCheck = NoCheck
  /\ reset = ResetStart
  /\ handler = NoHandler

Others == <<clock, module, env, calls, queryCheck, pathCheck, handler>>

\* time passes
Elapse ==
  /\ reset.now < MaxElapsed * FiveMinutes
  /\ reset' = [reset EXCEPT !.now = @ + FiveMinutes]
  /\ UNCHANGED Others

\* request-password-reset is called: the body is read and listUsers awaited
ResetRequested(i) ==
  /\ reset.req[i].pc = "idle"
  /\ \A k \in 1..(i - 1) : reset.req[k].pc # "idle"
  /\ \E email \in Emails :
       reset' = [reset EXCEPT !.req[i] = [IdleReset EXCEPT !.pc = "listing", !.email = email]]
  /\ UNCHANGED Others

\* listUsers answers: the code is drawn, expiresAt computed and the update
\* of the earlier codes awaited; nothing is stored for an unknown address
UsersListed(i) ==
  /\ reset.req[i].pc = "listing"
  /\ \E code \in Codes :
       reset' = [reset EXCEPT !.req[i] =
         IF @.email \in UserEmails
         THEN [@ EXCEPT !.pc = "invalidating", !.code = code, !.madeAt = reset.now,
                        !.expiresAt = reset.now + TenMinutes]
         ELSE [@ EXCEPT !.pc = "done", !.code = code]]
  /\ UNCHANGED Others

\* .update({ used: true }).eq('email', email).eq('used', false) has run
OldCodesInvalidated(i) ==
  /\ reset.req[i].pc = "invalidating"
  /\ reset' = [reset EXCEPT
       !.rows = [k \in 1..Len(@) |->
                   IF @[k].email = reset.req[i].email /\ ~@[k].used
                   THEN [@[k] EXCEPT !.used = TRUE] ELSE @[k]],
       !.req[i].pc = "inserting"]
  /\ UNCHANGED Others

\* .insert({ user_id, email, code, expires_at }) has run; used defaults to
\* false and created_at to the instant of the insert
CodeInserted(i) ==
  /\ reset.req[i].pc = "inserting"
  /\ reset' = [reset EXCEPT
       !.rows = Append(@, [email |-> reset.req[i].email, code |-> reset.req[i].code,
                           expiresAt |-> reset.req[i].expiresAt, used |-> FALSE,
                           createdAt |-> reset.now, madeAt |-> reset.req[i].madeAt,
                           updates |-> 0]),
       !.req[i].pc = "done"]
  /\ UNCHANGED Others

\* the reset-verification handler is called: the body is read, new Date()
\* evaluated and the select awaited
VerifyRequested(j) ==
  /\ reset.ver[j].pc = "idle"
  /\ \A k \in 1..(j - 1) : reset.ver[k].pc # "idle"
  /\ \E email \in UserEmails, code \in Codes :
       reset' = [reset EXCEPT !.ver[j] =
         [IdleVerify EXCEPT !.pc = "selecting", !.email = email, !.code = code,
                            !.at = reset.now]]
  /\ UNCHANGED Others

\* a select that does not look at expires_at
SelectableIgnoringExpiry(row, email, code, at) ==
  row.email = email /\ row.code = code /\ ~row.used

\* .eq('email', email).eq('code', code).eq('used', false).gt('expires_at', at)
Selectable(row, email, code, at) ==
  row.email = email /\ row.code = code /\ ~row.used /\ row.expiresAt > at

\* the select has run: .order('created_at', { ascending: false }).limit(1);
\* without a row the handler answers 400 'Invalid or expired code'
CodeSelected(j) ==
  /\ reset.ver[j].pc = "selecting"
  /\ LET v    == reset.ver[j]
         hits == {k \in 1..Len(reset.rows) : Selectable(reset.rows[k], v.email, v.code, v.at)}
     IN  IF hits = {}
         THEN reset' = [reset EXCEPT !.ver[j].pc = "rejected"]
         ELSE \E k \in hits :
                /\ \A h \in hits : reset.rows[h].createdAt <= reset.rows[k].createdAt
                /\ reset' = [reset EXCEPT !.ver[j].pc = "updating", !.ver[j].row = k]
  /\ UNCHANGED Others

\* auth.admin.updateUserById answers: with an error the handler answers 500,
\* otherwise the password is changed and the update of the code awaited
PasswordUpdated(j) ==
  /\ reset.ver[j].pc = "updating"
  /\ \E ok \in BOOLEAN :
       reset' = IF ok
                THEN [reset EXCEPT !.rows[reset.ver[j].row].updates = @ + 1,
                                   !.ver[j].pc = "marking"]
                ELSE [reset EXCEPT !.ver[j].pc = "failed"]
  /\ UNCHANGED Others

\* .update({ used: true }).eq('id', resetCode.id) has run: the answer is 200
CodeMarkedUsed(j) ==
  /\ reset.ver[j].pc = "marking"
  /\ reset' = [reset EXCEPT !.rows[reset.ver[j].row].used = TRUE,
                            !.ver[j].pc = "done"]
  /\ UNCHANGED Others

NextReset ==
  \/ Elapse
  \/ \E i \in ResetIds :
       \/ ResetRequested(i) \/ UsersListed(i) \/ OldCodesInvalidated(i) \/ CodeInserted(i)
       \/ VerifyRequested(i) \/ CodeSelected(i) \/ PasswordUpdated(i) \/ CodeMarkedUsed(i)

SpecReset == InitReset /\ [][NextReset]_vars

RowIds == 1..Len(reset.rows)

\* no request-password-reset call is between its first await and its answer
NoResetInProgress == \A i \in ResetIds : reset.req[i].pc \in {"idle", "done"}

\* the verification j got past the select and went on with the row it chose
Redeeming(j) == reset.ver[j].pc \in {"updating", "marking", "done", "failed"}

\* C15: a reset code is single-use: whatever the interleaving of the
\* reset-verification requests, one stored code leads to at most one
\* successful password update.
C15_SingleUse == \A k \in RowIds : reset.rows[k].updates <= 1

\* C16: a new code invalidates the old ones: once the password-reset
\* requests have answered, an address has at most one code with used = false,
\* it is the most recently created one, and every earlier code is used.
C16_OneLiveCode ==
  NoResetInProgress =>
    \A k \in RowIds : ~reset.rows[k].used =>
      \A h \in RowIds : (h # k /\ reset.rows[h].email = reset.rows[k].email) =>
        /\ reset.rows[h].used
        /\ reset.rows[h].createdAt <= reset.rows[k].createdAt

Contains(t, part) ==
  \E k \in 0..(Len(t) - Len(part)) : SubSeq(t, k + 1, k + Len(part)) = part

\* C18: path and query are separated: for a target URL with a query string
\* the canonical URI line of every signer holds the path only, without '?',
\* and the canonical query line is not empty and holds every query key.
C18_PathAndQuerySeparated ==
  \A i \in Slots :
    (Finished(calls[i]) /\ calls[i].p.url # NoUrl /\ calls[i].p.url.query # <<>>) =>
      LET cr == calls[i].canonicalRequest
      IN  /\ ~Contains(cr.uri, <<"?">>)
          /\ cr.query # <<>>
          /\ \A k \in 1..Len(calls[i].p.url.query) :
               Contains(cr.query, calls[i].p.url.query[k][1])

(***************************************************************************)
(* list-repository-files: the URL of the S3 listing is built from the      *)
(* parameters of the request and signed with the signRequest of            *)
(* list-repository-files/aws-signer.ts.                                    *)
(***************************************************************************)
\* url.searchParams.get("maxKeys") || "1000"
MaxKeysInputs == {<<"1000">>, <<"5">>}

\* url.searchParams.get("prefix") || ""
PrefixInputs == {<<>>, <<"k">>, <<"k", " ", "z">>, <<"k", "/", "z">>, <<"k", "~">>}

\* url.searchParams.get("continuationToken") || ""
TokenInputs == {<<>>, <<"K">>, <<"K", "+", "=">>}

\* the parameters in the order of the searchParams.set calls
ListingPairs(maxKeys, prefix, continuationToken) ==
  << << <<"list-type">>, <<"2">> >>, << <<"max-keys">>, maxKeys >> >>
  \o (IF prefix # <<>> THEN << << <<"prefix">>, prefix >> >> ELSE <<>>)
  \o (IF continuationToken # <<>>
      THEN << << <<"continuation-token">>, continuationToken >> >> ELSE <<>>)

\* the query of s3Url.toString(): every key and value form-encoded
ListingQuery(maxKeys, prefix, continuationToken) ==
  LET ps == ListingPairs(maxKeys, prefix, continuationToken)
  IN  [k \in 1..Len(ps) |-> <<FormEncode(ps[k][1]), FormEncode(ps[k][2])>>]

ListingSite(maxKeys, prefix, continuationToken) ==
  Site("list-repository-files/index.ts:126", {LRF}, TRUE, "GET", "s3",
       <<"bucket", "s3">>, <<"/">>, ListingQuery(maxKeys, prefix, continuationToken),
       <<>>, FALSE, FALSE)

ListingCall(i) ==
  /\ calls[i].pc = "idle"
  /\ \A k \in 1..(i - 1) : calls[k].pc # "idle"
  /\ env.AWS_ACCESS_KEY_ID # "" /\ env.AWS_SECRET_ACCESS_KEY # ""
  /\ \E maxKeys \in MaxKeysInputs, prefix \in PrefixInputs, token \in TokenInputs :
       LET site == ListingSite(maxKeys, prefix, token)
       IN  Invoke(i, site, HandlerParams(site))
  /\ UNCHANGED <<clock, module, env, queryCheck, pathCheck, reset, handler>>

InitListing ==
  /\ clock = 0
  /\ module = LRF
  /\ env \in {[DefaultEnv EXCEPT !.AWS_REGION = r] : r \in {"", "eu-west-1", "us-east-1 "}}
  /\ calls = [i \in Slots |-> IdleCall]
  /\ queryCheck = NoCheck
  /\ pathCheck = NoCheck
  /\ reset = NoReset
  /\ handler = NoHandler

NextListing == ListingCall(1) \/ Step(1)

SpecListing == InitListing /\ [][NextListing]_vars

\* the pairs of key `key` among ps, each written key=value with the escapes
\* of RFC 3986
EncodedPairsOf(ps, key) ==
  LET own == SelectSeq(ps, LAMBDA kv : kv[1] = <<key>>)
  IN  [k \in 1..Len(own) |->
         encodeURIComponent2(own[k][1]) \o <<"=">> \o encodeURIComponent2(own[k][2])]

\* the pairs of the listing URL sorted by key, escaped and joined with '&'
ListingReference(u) ==
  LET ps == searchParams(u)
  IN  Join(EncodedPairsOf(ps, "continuation-token") \o EncodedPairsOf(ps, "list-type")
           \o EncodedPairsOf(ps, "max-keys") \o EncodedPairsOf(ps, "prefix"), <<"&">>)

\* C19: for every URL the list-repository-files handler builds, the canonical
\* query string of the signer it imports has the pairs sorted by key, every
\* key and value escaped so that only letters, digits, '-', '.', '_' and '~'
\* stay as they are (a space is %20, never '+').
C19_ListingQueryIsCanonical ==
  \A i \in Slots :
    Finished(calls[i]) =>
      calls[i].canonicalRequest.query = ListingReference(calls[i].p.url)

\* the code point of a character of an escaped key or value
CodePoint(c) ==
  CASE c = "%" -> 37 [] c = "-" -> 45 [] c = "." -> 46
    [] c = "0" -> 48 [] c = "1" -> 49 [] c = "2" -> 50 [] c = "3" -> 51
    [] c = "4" -> 52 [] c = "5" -> 53 [] c = "6" -> 54 [] c = "7" -> 55
    [] c = "8" -> 56 [] c = "9" -> 57
    [] c = "A" -> 65 [] c = "B" -> 66 [] c = "C" -> 67 [] c = "D" -> 68
    [] c = "E" -> 69 [] c = "F" -> 70 [] c = "K" -> 75 [] c = "P" -> 80
    [] c = "R" -> 82 [] c = "U" -> 85 [] c = "_" -> 95
    [] c = "k" -> 107 [] c = "z" -> 122 [] c = "~" -> 126

CodePoints(t) == [i \in 1..Len(t) |-> CodePoint(t[i])]

\* the pair a does not come after the pair b: by key, then by value
InReferenceOrder(a, b) ==
  LET byKey == CompareWeights(CodePoints(a[1]), CodePoints(b[1]))
  IN  byKey < 0 \/ (byKey = 0 /\ CompareWeights(CodePoints(a[2]), CodePoints(b[2])) <= 0)

\* the escaped pairs of the query q as the URL's searchParams yield them
EscapedPairs(q) ==
  LET ps == searchParams([PlainUrl EXCEPT !.query = q])
  IN  [i \in 1..Len(ps) |-> <<encodeURIComponent2(ps[i][1]), encodeURIComponent2(ps[i][2])>>]

\* text is all the pairs of q, escaped, in reference order, joined with '&'
IsReferenceQuery(text, q) ==
  \E o \in Reorderings(EscapedPairs(q)) :
    /\ \A i \in 1..(Len(o) - 1) : InReferenceOrder(o[i], o[i + 1])
    /\ text = Join([i \in 1..Len(o) |-> RawPair(o[i])], <<"&">>)

\* C20: getCanonicalQueryString returns all pairs with their multiplicity,
\* each key and value escaped, ordered by code point of the escaped key and
\* then of the escaped value (an upper-case letter before every lower-case
\* letter), joined as key=value with '&'; no pairs give the empty text.
C20_CanonicalQueryIsReference ==
  queryCheck.pc = "done" =>
    IsReferenceQuery(queryCheck.resultFirst.canonicalQuery, queryCheck.first)

(***************************************************************************)
(* The canonical path of the signRequest written inline in                 *)
(* bedrock-llm/index.ts, applied to the same URLs as the canonical-URI     *)
(* check.                                                                  *)
(***************************************************************************)
InitInlinePath ==
  /\ clock = 0
  /\ module = BLI
  /\ env = DefaultEnv
  /\ calls = [i \in Slots |-> IdleCall]
  /\ queryCheck = NoCheck
  /\ pathCheck \in {[pc |-> "ready", segment |-> s, uri |-> <<>>] : s \in SegmentInputs}
  /\ reset = NoReset
  /\ handler = NoHandler

SpecInlinePath == InitInlinePath /\ [][NextPath]_vars

\* the characters that stay unescaped under RFC 3986 among those of PathChars
\* and of the escapes
Unreserved == {"k", "0", "1", "2", "3", "4", "5", "6", "7", "8", "9",
               "A", "B", "C", "D", "E", "F", "-", ".", "_", "~"}

\* C21: in the signer written inline in bedrock-llm/index.ts every segment of
\* the canonical path is the once-decoded segment with everything but
\* letters, digits, '-', '.', '_' and '~' escaped: '!' and '*' never appear
\* literally, and the root path stays '/'.
C21_InlinePathRuleSet ==
  (pathCheck.pc = "done" /\ decodeURIComponent(pathCheck.segment) # Thrown) =>
    /\ \A k \in 1..Len(pathCheck.uri) : pathCheck.uri[k] \in Unreserved \cup {"/", "%"}
    /\ pathCheck.uri = <<"/">> \o encodeURIComponent2(decodeURIComponent(pathCheck.segment))

\* the lines of a text of pieces
LinesOf(text) == Split(text, NewLine)

\* C22: in every signer variant the canonical request is method, canonical
\* URI, canonical query string, the canonical headers block (one line per
\* header, each ended by a newline), the signed-headers list and the payload
\* hash, separated by single newlines: exactly one empty line stands between
\* the last header line and the signed-headers line, and nothing follows the
\* payload hash.
C22_CanonicalRequestLayout ==
  \A i \in Slots :
    Finished(calls[i]) =>
      LET cr == calls[i].canonicalRequest
      IN  LinesOf(calls[i].canonicalText) =
            << <<TextValue(<<cr.method>>)>>, Pieces(<<TextValue(cr.uri)>>),
               Pieces(<<TextValue(cr.query)>>) >>
            \o [k \in 1..Len(cr.headers) |->
                  Pieces(<<TextValue(<<cr.headers[k].name, ":">>), cr.headers[k].value>>)]
            \o << <<>>,
                  <<TextValue(Join([k \in 1..Len(cr.signedHeaders) |-> <<cr.signedHeaders[k]>>],
                                   <<";">>))>>,
                  <<TermValue(cr.payloadHash)>> >>

\* a signer with a query line and three signed headers returned
C22_Witness ==
  \E i \in Slots :
    /\ Finished(calls[i])
    /\ calls[i].canonicalRequest.query # <<>>
    /\ Len(calls[i].canonicalRequest.headers) = 3
    /\ Len(LinesOf(calls[i].canonicalText)) = 9

\* the header names the signers know, in ascending order
HeaderNameOrder == <<"content-type", "host", "x-amz-content-sha256", "x-amz-date">>

NameRank(n) == CHOOSE k \in 1..Len(HeaderNameOrder) : HeaderNameOrder[k] = n

\* C23: in every signer variant the canonical headers block has one
\* name:value line per signed header, the names in lower case and in
\* ascending order, host and x-amz-date among them, and the SignedHeaders
\* list is exactly those names in the same order.
C23_HeadersAndSignedHeadersAgree ==
  \A i \in Slots :
    Finished(calls[i]) =>
      LET cr    == calls[i].canonicalRequest
          names == [k \in 1..Len(cr.headers) |-> cr.headers[k].name]
      IN  /\ \A k \in 1..Len(names) : names[k] = LowerName(names[k])
          /\ \A k \in 1..(Len(names) - 1) : NameRank(names[k]) < NameRank(names[k + 1])
          /\ \E k \in 1..Len(names) : names[k] = "host"
          /\ \E k \in 1..Len(names) : names[k] = "x-amz-date"
          /\ cr.signedHeaders = names
          /\ AuthorizationOf(calls[i].headers).signedHeaders = names

\* the variant that signs content-type has returned
C23_Witness ==
  \E i \in Slots :
    /\ Finished(calls[i])
    /\ module = LFM
    /\ calls[i].canonicalRequest.headers[1].name = "content-type"
    /\ AuthorizationOf(calls[i].headers).signedHeaders[1] = "content-type"

\* the key that four chained HMAC steps derive for the invocation c
DerivedKey(c) ==
  Hmac(Hmac(Hmac(Hmac(<<"AWS4", c.p.secretAccessKey>>, c.dateStamp), c.p.region),
            c.p.service), "aws4_request")

\* C24: in every signer variant the signing key is the result of four
\* chained HMAC-SHA256 steps over dateStamp, region, service and
\* 'aws4_request', the first keyed with 'AWS4' + secretAccessKey and each
\* later one with the bytes of the previous result, and the signature is
\* the HMAC of the string to sign under that key.
C24_SigningKeyDerivation ==
  \A i \in Slots :
    Finished(calls[i]) =>
      /\ calls[i].key = DerivedKey(calls[i])
      /\ calls[i].signature = ToHex(Hmac(DerivedKey(calls[i]), calls[i].stringToSign))

\* the HMAC over the service name in the key chain of the invocation c
ServiceStep(c) == IF c.key.data = "aws4_request" THEN c.key.key ELSE c.key

\* C25: in every signer variant the string to sign is 'AWS4-HMAC-SHA256',
\* amzDate, the credential scope and the hex SHA-256 of the canonical
\* request, and the credential scope is dateStamp/region/service/aws4_request
\* with the dateStamp, region and service that key the derivation chain.
C25_StringToSign ==
  \A i \in Slots :
    Finished(calls[i]) =>
      LET c == calls[i]
      IN  /\ c.stringToSign =
               [algorithm |-> "AWS4-HMAC-SHA256", amzDate |-> c.amzDate, scope |-> c.scope,
                hash |-> ToHex(Sha256(c.canonicalRequest))]
          /\ c.scope =
               [dateStamp |-> ServiceStep(c).key.key.data,
                region |-> ServiceStep(c).key.data,
                service |-> ServiceStep(c).data,
                terminator |-> "aws4_request"]

\* a call that read the clock after it had advanced has returned
C25_Witness ==
  \E i \in Slots :
    /\ Finished(calls[i])
    /\ calls[i].now > 0
    /\ calls[i].stringToSign.scope.dateStamp = DateStampOf(AmzDateOf(calls[i].now))

\* C26: in every signer variant the returned Authorization value is
\* 'AWS4-HMAC-SHA256 Credential=' accessKeyId '/' credentialScope
\* ', SignedHeaders=' signedHeaders ', Signature=' signature, with the
\* credential scope of the string to sign, the signed-headers list of the
\* canonical request, and the signature the hex text of the HMAC-SHA256 of
\* the string to sign.
C26_AuthorizationValue ==
  \A i \in Slots :
    Finished(calls[i]) =>
      LET c == calls[i]
      IN  /\ AuthorizationOf(c.headers) =
               [algorithm |-> "AWS4-HMAC-SHA256", accessKeyId |-> c.p.accessKeyId,
                scope |-> c.stringToSign.scope,
                signedHeaders |-> c.canonicalRequest.signedHeaders,
                signature |-> c.signature]
          /\ c.signature = ToHex(Hmac(c.key, c.stringToSign))

\* a variant that signs x-amz-content-sha256 has returned its Authorization
C26_Witness ==
  \E i \in Slots :
    /\ Finished(calls[i])
    /\ module \in {GUU, GPI}
    /\ AuthorizationOf(calls[i].headers).accessKeyId = GoodAccessKeyId
    /\ AuthorizationOf(calls[i].headers).signedHeaders
         = <<"host", "x-amz-content-sha256", "x-amz-date">>

(***************************************************************************)
(* The credentials check of the handlers: Deno.env.get gives no value (""  *)
(* here) for a variable that is not set.                                   *)
(***************************************************************************)
CredentialEnvs ==
  {[DefaultEnv EXCEPT !.AWS_ACCESS_KEY_ID = a, !.AWS_SECRET_ACCESS_KEY = k]
     : a \in {"", GoodAccessKeyId}, k \in {"", GoodSecretAccessKey}}

CredentialsMissing == env.AWS_ACCESS_KEY_ID = "" \/ env.AWS_SECRET_ACCESS_KEY = ""

\* if (!awsAccessKeyId || !awsSecretAccessKey): the handler answers 500
\* 'AWS credentials not configured' and returns
CredentialsRefused ==
  /\ calls[1].pc = "idle"
  /\ CredentialsMissing
  /\ \E site \in AllSites :
       /\ module \in site.modules
       /\ calls' = [calls EXCEPT ![1] = [@ EXCEPT !.pc = "refused", !.site = site]]
  /\ UNCHANGED <<clock, module, env, queryCheck, pathCheck, reset, handler>>

InitCredentials ==
  /\ clock = 0
  /\ module \in Variants
  /\ env \in CredentialEnvs
  /\ calls = [i \in Slots |-> IdleCall]
  /\ queryCheck = NoCheck
  /\ pathCheck = NoCheck
  /\ reset = NoReset
  /\ handler = NoHandler

NextCredentials == CredentialsRefused \/ SiteCall \/ Step(1)

SpecCredentials == InitCredentials /\ [][NextCredentials]_vars

\* C27: when AWS_ACCESS_KEY_ID or AWS_SECRET_ACCESS_KEY is missing or empty
\* a handler answers 500 'AWS credentials not configured', and in that
\* request no signRequest call and no fetch to AWS has happened or happens
\* afterwards.
C27_CredentialsCheckedFirst ==
  /\ [](\A i \in Slots : CredentialsMissing => calls[i].pc \in {"idle", "refused"})
  /\ [](\A i \in Slots :
          calls[i].pc = "refused" =>
            /\ calls[i].reads = 0 /\ calls[i].ops = 0
            /\ calls[i].headers = <<>> /\ calls[i].request = NoTerm)
  /\ [][\A i \in Slots : calls[i].pc = "refused" => calls'[i] = calls[i]]_vars

\* a handler has answered 500 with the access key id set and the secret
\* access key missing
C27_Witness ==
  /\ calls[1].pc = "refused"
  /\ env.AWS_ACCESS_KEY_ID # ""
  /\ env.AWS_SECRET_ACCESS_KEY = ""

(***************************************************************************)
(* The region: the call sites of the handlers, and signRequest called      *)
(* with no region.                                                         *)
(***************************************************************************)
RegionlessParams ==
  [Params("GET", PlainUrl, <<"example", "com">>, <<"/", "k">>, <<>>,
          GoodAccessKeyId, GoodSecretAccessKey) EXCEPT !.region = ""]

RegionlessCall ==
  /\ calls[1].pc = "idle"
  /\ Invoke(1, DirectSite, RegionlessParams)
  /\ UNCHANGED <<clock, module, env, queryCheck, pathCheck, reset, handler>>

NextRegion == RegionlessCall \/ SiteCall \/ Step(1)

SpecRegion == InitHandlers /\ [][NextRegion]_vars

\* C28: no signRequest variant substitutes a default region: the region of
\* the credential scope and of the key derivation is the region parameter;
\* and at every call site of a handler that region is the awsRegion value
\* written into the hostname of the endpoint that is signed and fetched.
C28_RegionChosenByCaller ==
  \A i \in Slots :
    Finished(calls[i]) =>
      LET c == calls[i]
      IN  /\ c.scope.region = c.p.region
          /\ c.stringToSign.scope.region = c.p.region
          /\ ServiceStep(c).key.data = c.p.region
          /\ AuthorizationOf(c.headers).scope.region = c.p.region
          /\ c.site \in AllSites =>
               /\ \E k \in 1..Len(c.p.url.host) : c.p.url.host[k] = c.p.region
               /\ c.pc = "sent" =>
                    \E k \in 1..Len(c.request.url.host) : c.request.url.host[k] = c.p.region

\* a handler's request to an endpoint of eu-west-1 was sent
C28_Witness ==
  \E i \in Slots :
    /\ calls[i].pc = "sent"
    /\ calls[i].site \in AllSites
    /\ env.AWS_REGION = "eu-west-1"
    /\ calls[i].scope.region = "eu-west-1"

(***************************************************************************)
(* copy-repository-files: the copy loop.  For each file key the handler    *)
(* awaits signRequest, then fetch, then on a non-2xx answer the text of    *)
(* the answer; each of them may throw into the catch of the loop body.     *)
(***************************************************************************)
FileKeys == {"file", "test.txt"}

FileKeyInputs == UNION {[1..n -> FileKeys] : n \in 1..MaxFiles}

\* the handler has reached the loop and awaits signRequest for the first key
CopyStart(fileKeys) ==
  [pc |-> "signing", fileKeys |-> fileKeys, index |-> 1, attempts |-> 1,
   copyResults |-> <<>>, answer |-> NoTerm]

\* the answer after the loop: status 200 with results and the two counts
CopyAnswer(copyResults) ==
  [status |-> 200, results |-> copyResults,
   successCount |-> Cardinality({k \in 1..Len(copyResults) : copyResults[k].success}),
   failureCount |-> Cardinality({k \in 1..Len(copyResults) : ~copyResults[k].success})]

\* what copyResults.push records: the destination key of a copy, the text of
\* a non-2xx answer, or the message of an exception
CopyResult(fileKey, outcome) ==
  [fileKey |-> fileKey, success |-> outcome = "destinationKey", detail |-> outcome]

\* a loop that is left at the first failure
CopyRecordedLeavingLoop(h, outcome) ==
  LET results == Append(h.copyResults, CopyResult(h.fileKeys[h.index], outcome))
  IN  IF h.index = Len(h.fileKeys) \/ outcome # "destinationKey"
      THEN [h EXCEPT !.pc = "answered", !.copyResults = results,
                     !.answer = CopyAnswer(results)]
      ELSE [h EXCEPT !.pc = "signing", !.copyResults = results, !.index = @ + 1,
                     !.attempts = @ + 1]

\* copyResults.push(...) ends the iteration: the loop goes on with the next
\* key, or the handler counts and answers
CopyRecorded(h, outcome) ==
  LET results == Append(h.copyResults, CopyResult(h.fileKeys[h.index], outcome))
  IN  IF h.index = Len(h.fileKeys)
      THEN [h EXCEPT !.pc = "answered", !.copyResults = results,
                     !.answer = CopyAnswer(results)]
      ELSE [h EXCEPT !.pc = "signing", !.copyResults = results, !.index = @ + 1,
                     !.attempts = @ + 1]

HandlerOthers == <<clock, module, env, calls, queryCheck, pathCheck, reset>>

\* signRequest resolves, and fetch is awaited, or it throws
CopySigned ==
  /\ handler.pc = "signing"
  /\ \E thrown \in BOOLEAN :
       handler' = IF thrown THEN CopyRecorded(handler, "error.message")
                  ELSE [handler EXCEPT !.pc = "fetching"]
  /\ UNCHANGED HandlerOthers

\* fetch resolves with a 2xx answer, with another answer, whose text is
\* awaited, or it throws
CopyFetched ==
  /\ handler.pc = "fetching"
  /\ \E outcome \in {"ok", "not ok", "thrown"} :
       handler' = CASE outcome = "ok" -> CopyRecorded(handler, "destinationKey")
                    [] outcome = "not ok" -> [handler EXCEPT !.pc = "reading"]
                    [] outcome = "thrown" -> CopyRecorded(handler, "error.message")
  /\ UNCHANGED HandlerOthers

\* copyResponse.text() resolves, or it throws
CopyErrorRead ==
  /\ handler.pc = "reading"
  /\ \E thrown \in BOOLEAN :
       handler' = CopyRecorded(handler, IF thrown THEN "error.message" ELSE "errorText")
  /\ UNCHANGED HandlerOthers

InitCopy ==
  /\ clock = 0
  /\ module = GUU
  /\ env = DefaultEnv
  /\ calls = [i \in Slots |-> IdleCall]
  /\ queryCheck = NoCheck
  /\ pathCheck = NoCheck
  /\ reset = NoReset
  /\ handler \in {CopyStart(fileKeys) : fileKeys \in FileKeyInputs}

NextCopy == CopySigned \/ CopyFetched \/ CopyErrorRead

SpecCopy == InitCopy /\ [][NextCopy]_vars

\* C29: once copy-repository-files has reached its copy loop it answers with
\* one result per file key, in input order; a failed copy or an exception for
\* one file is recorded as success = false and the remaining files are still
\* attempted; successCount + failureCount is the number of file keys.
C29_EveryFileAccounted ==
  handler.pc = "answered" =>
    LET a == handler.answer
    IN  /\ Len(a.results) = Len(handler.fileKeys)
        /\ \A k \in 1..Len(a.results) : a.results[k].fileKey = handler.fileKeys[k]
        /\ handler.attempts = Len(handler.fileKeys)
        /\ a.successCount + a.failureCount = Len(handler.fileKeys)
        /\ a.successCount = Cardinality({k \in 1..Len(a.results) : a.results[k].success})

\* the first copy failed and a later one succeeded
C29_Witness ==
  /\ handler.pc = "answered"
  /\ Len(handler.fileKeys) = MaxFiles
  /\ ~handler.answer.results[1].success
  /\ handler.answer.results[2].success
  /\ handler.answer.failureCount = 2

(***************************************************************************)
(* bedrock-llm: the title step.  After the main Bedrock call has answered  *)
(* the handler may ask Bedrock for a title: it awaits signRequest, fetch   *)
(* and the body of the answer inside one try/catch, and then answers.      *)
(***************************************************************************)
\* the longest title, and the length a sentence of reasoning must stay below
TitleLimit == 100

\* the value of a variable or property that was never assigned
Undefined == <<"<undefined>">>

\* the JSON null
Null == <<"<null>">>

RECURSIVE TrimStart(_)
TrimStart(t) == IF t # <<>> /\ Head(t) = " " THEN TrimStart(Tail(t)) ELSE t

RECURSIVE TrimEnd(_)
TrimEnd(t) ==
  IF t # <<>> /\ t[Len(t)] = " " THEN TrimEnd(SubSeq(t, 1, Len(t) - 1)) ELSE t

\* String.prototype.trim
Trim(t) == TrimEnd(TrimStart(t))

Quotes == {"\"", "'"}

\* replace(/^["']|["']$/g, ''): a quote at the start and a quote at the end
StripQuotes(t) ==
  LET rest == IF t # <<>> /\ Head(t) \in Quotes THEN Tail(t) ELSE t
  IN  IF rest # <<>> /\ rest[Len(rest)] \in Quotes
      THEN SubSeq(rest, 1, Len(rest) - 1) ELSE rest

\* slice(0, n)
Slice(t, n) == IF Len(t) <= n THEN t ELSE SubSeq(t, 1, n)

\* a value is truthy: a text that is assigned and not empty
Truthy(t) == t # Undefined /\ t # <<>>

\* the texts a content item of the title answer may carry
TitleTexts ==
  {<<>>, <<" ">>, <<"\"">>, <<"T">>, <<"\"", "T", "\"">>, <<" ", "T", " ">>}

ReasoningTexts == {<<>>, <<"a", ".", " ", "T", ".">>, <<" ", ".">>}

ContentItems ==
  {[kind |-> "text", text |-> t] : t \in TitleTexts}
    \cup {[kind |-> "reasoning", text |-> t] : t \in ReasoningTexts}

\* the bodies of a 2xx title answer: output.message.content is absent, or an
\* array of at most two items
TitleDataInputs ==
  {[hasContent |-> FALSE, content |-> <<>>]}
    \cup {[hasContent |-> TRUE, content |-> c] :
            c \in UNION {[1..n -> ContentItems] : n \in 0..2}}

\* the first loop over contentArray: the first item whose text is truthy
RECURSIVE FirstText(_)
FirstText(content) ==
  IF content = <<>> THEN Undefined
  ELSE IF Head(content).kind = "text" /\ Truthy(Head(content).text)
       THEN Head(content).text
       ELSE FirstText(Tail(content))

\* reasoningText.split('.').filter(s => s.trim()).pop()
LastSentence(reasoningText) ==
  LET sentences == SelectSeq(Split(reasoningText, "."), LAMBDA x : Trim(x) # <<>>)
  IN  IF sentences = <<>> THEN Undefined ELSE sentences[Len(sentences)]

\* the second loop: the last sentence of the first item of reasoning that has
\* one shorter than the limit
RECURSIVE FromReasoning(_)
FromReasoning(content) ==
  IF content = <<>> THEN Undefined
  ELSE LET item == Head(content)
           lastSentence == LastSentence(item.text)
       IN  IF /\ item.kind = "reasoning"
              /\ Truthy(item.text)
              /\ Truthy(lastSentence)
              /\ Len(lastSentence) < TitleLimit
           THEN Trim(lastSentence)
           ELSE FromReasoning(Tail(content))

\* rawTitle of a title answer
RawTitle(titleData) ==
  IF ~titleData.hasContent THEN Undefined
  ELSE IF Truthy(FirstText(titleData.content)) THEN FirstText(titleData.content)
  ELSE FromReasoning(titleData.content)

\* rawTitle.trim().replace(/^["']|["']$/g, '').slice(0, 100)
ProcessedTitle(rawTitle) == Slice(StripQuotes(Trim(rawTitle)), TitleLimit)

\* bedrockData.output?.message?.content?.[0]?.text || "No answer generated"
MainAnswer(text) == IF Truthy(text) THEN text ELSE <<"No answer generated">>

MainTexts == {Undefined, <<>>, <<"answer">>}

CitationInputs == {<<>>, <<[text |-> <<"cited">>]>>}

\* the model of the title call: the inference profile, else the part of
\* modelArn after 'foundation-model/', else modelArn, else the default
ExtractedModelId(inferenceProfileId, modelArn) ==
  IF Truthy(inferenceProfileId) THEN inferenceProfileId
  ELSE IF Truthy(modelArn)
       THEN IF Len(Split(modelArn, "foundation-model/")) > 1
            THEN Split(modelArn, "foundation-model/")[2] ELSE modelArn
       ELSE <<"anthropic.claude-3-5-sonnet-20240620-v1:0">>

ProfileInputs == {Undefined, <<"profile">>}

ModelArnInputs ==
  {Undefined, <<"arn:aws:bedrock:::", "foundation-model/", "model">>, <<"model-id">>}

\* the models a request may name
ModelInputs ==
  {[inferenceProfileId |-> p, modelArn |-> a] : p \in ProfileInputs, a \in ModelArnInputs}

\* the main call has answered; title and titleDebug are initialised
TitleStart(generateTitle, answer, citations, model) ==
  [pc |-> "check", generateTitle |-> generateTitle, answer |-> answer,
   citations |-> citations, model |-> model, title |-> Undefined, titleCalls |-> 0,
   titleDebug |-> [attempted |-> FALSE, generateTitleParam |-> generateTitle,
                   hasAnswer |-> Truthy(answer), status |-> Undefined,
                   error |-> Undefined, rawTitle |-> Undefined,
                   endpoint |-> Undefined,
                   extractedFromReasoning |-> FALSE, contentExists |-> FALSE,
                   finalTitle |-> Undefined],
   response |-> NoTerm]

\* new Response(JSON.stringify(response), {headers}): status 200
TitleAnswered(h) ==
  [h EXCEPT !.pc = "answered",
            !.titleDebug.finalTitle = h.title,
            !.response = [status |-> 200, answer |-> h.answer,
                          citations |-> h.citations,
                          title |-> IF Truthy(h.title) THEN h.title ELSE Null,
                          titleDebug |-> [h.titleDebug EXCEPT !.finalTitle = h.title]]]

\* the catch of the title step
TitleCaught(h) == TitleAnswered([h EXCEPT !.titleDebug.error = <<"titleError.message">>])

\* if (generateTitle && answer): the step is attempted and signRequest is
\* awaited, or the step is skipped and the handler answers
TitleChecked ==
  /\ handler.pc = "check"
  /\ handler' = IF handler.generateTitle /\ Truthy(handler.answer)
                THEN [handler EXCEPT
                        !.pc = "signing", !.titleDebug.attempted = TRUE,
                        !.titleDebug.endpoint =
                          <<"https://bedrock-runtime.",
                            IF env.AWS_REGION = "" THEN "us-east-1" ELSE env.AWS_REGION,
                            ".amazonaws.com/model/">>
                            \o ExtractedModelId(handler.model.inferenceProfileId,
                                                handler.model.modelArn)
                            \o <<"/converse">>]
                ELSE TitleAnswered(handler)
  /\ UNCHANGED HandlerOthers

\* signRequest resolves, and fetch is called, or it throws
TitleSigned ==
  /\ handler.pc = "signing"
  /\ \E thrown \in BOOLEAN :
       handler' = IF thrown THEN TitleCaught(handler)
                  ELSE [handler EXCEPT !.pc = "fetching", !.titleCalls = @ + 1]
  /\ UNCHANGED HandlerOthers

\* the statuses of the title answers: titleResponse.ok is true of the first
TitleStatuses == {<<"200">>, <<"403">>, <<"500">>}

\* fetch resolves with a 2xx answer or with another one, or it throws
TitleFetched ==
  /\ handler.pc = "fetching"
  /\ \/ handler' = TitleCaught(handler)
     \/ \E status \in TitleStatuses :
          handler' = [handler EXCEPT !.pc = IF status = <<"200">> THEN "parsing"
                                            ELSE "reading",
                                     !.titleDebug.status = status]
  /\ UNCHANGED HandlerOthers

\* what the handler does with the body of a 2xx answer
TitleFrom(h, titleData) ==
  LET rawTitle == RawTitle(titleData)
      fromReasoning == titleData.hasContent /\ ~Truthy(FirstText(titleData.content))
                         /\ Truthy(rawTitle)
  IN  IF Truthy(rawTitle)
      THEN TitleAnswered([h EXCEPT !.titleDebug.rawTitle = rawTitle,
                                   !.titleDebug.extractedFromReasoning = fromReasoning,
                                   !.title = ProcessedTitle(rawTitle)])
      ELSE TitleAnswered([h EXCEPT !.titleDebug.rawTitle = rawTitle,
                                   !.titleDebug.error = <<"No raw title in response">>,
                                   !.titleDebug.contentExists = titleData.hasContent])

\* titleResponse.json() resolves, or it throws
TitleParsed ==
  /\ handler.pc = "parsing"
  /\ \/ handler' = TitleCaught(handler)
     \/ \E titleData \in TitleDataInputs : handler' = TitleFrom(handler, titleData)
  /\ UNCHANGED HandlerOthers

ErrorTexts == {<<>>, <<"AccessDeniedException">>}

\* titleResponse.text() resolves, or it throws
TitleErrorRead ==
  /\ handler.pc = "reading"
  /\ \/ handler' = TitleCaught(handler)
     \/ \E errorText \in ErrorTexts :
          handler' = TitleAnswered([handler EXCEPT !.titleDebug.error = errorText])
  /\ UNCHANGED HandlerOthers

InitTitle ==
  /\ clock = 0
  /\ module = BLI
  /\ env = DefaultEnv
  /\ calls = [i \in Slots |-> IdleCall]
  /\ queryCheck = NoCheck
  /\ pathCheck = NoCheck
  /\ reset = NoReset
  /\ handler \in {TitleStart(g, MainAnswer(text), citations, model) :
                    g \in BOOLEAN, text \in MainTexts, citations \in CitationInputs,
                    model \in ModelInputs}

NextTitle ==
  TitleChecked \/ TitleSigned \/ TitleFetched \/ TitleParsed \/ TitleErrorRead

SpecTitle == InitTitle /\ [][NextTitle]_vars

\* C30: whatever the title step does, bedrock-llm answers with status 200, the
\* answer and the citations of the main call; when the step was attempted and
\* gave no title, the title is null and titleDebug records an error; the
\* title call is made only when generateTitle is true and the answer is not
\* empty.
C30_TitleNeverFailsTheAnswer ==
  /\ handler.titleCalls > 0 => handler.generateTitle /\ Truthy(handler.answer)
  /\ handler.pc = "answered" =>
       /\ handler.response.status = 200
       /\ handler.response.answer = handler.answer
       /\ handler.response.citations = handler.citations
       /\ (handler.titleDebug.attempted /\ ~Truthy(handler.title)) =>
            /\ handler.response.title = Null
            /\ handler.response.titleDebug.error # Undefined

====
